---- MODULE Spec2Model ----
(***************************************************************************)
(* Verification model of the visual-testing orchestration engine:          *)
(*   - withRetry                  (src/visual-testing-utils.ts)            *)
(*   - the prod-screenshot cache  (src/compare-prod-and-preview.ts)        *)
(*   - the sitemap resolver       (src/sitemap-utils.ts)                   *)
(*   - the prod/preview pipeline  (src/compare-prod-and-preview.ts)        *)
(* Each component has its own specification over the shared variables; a   *)
(* component that a specification does not exercise stays in its initial   *)
(* state.                                                                  *)
(***************************************************************************)
EXTENDS Integers, Sequences, FiniteSets, TLC

VARIABLES
    \* ---- withRetry ----
    rOpts,        \* the RetryOptions argument
    rPc,          \* "calling" | "sleeping" | "returned" | "threw"
    attempt,      \* `attempt` local of withRetry
    calls,        \* number of invocations of operation()
    rResult,      \* value returned to the caller (or NoValue)
    rThrown,      \* error raised to the caller (or NoValue)
    delayMs,      \* delay of the sleep in progress / last slept
    failsFirst    \* the operation under retry fails on its first failsFirst calls

retryVars ==
    <<rOpts, rPc, attempt, calls, rResult, rThrown, delayMs, failsFirst>>

VARIABLES
    \* ---- the run's configuration and the prod-screenshot cache ----
    config,       \* ScriptConfig
    now,          \* Date.now(), in clock ticks
    cache,        \* CACHE_DIR: filename -> entry (<<>> when there is no file)
    lastLookup    \* the last getCachedProdScreenshot call and what it returned

cacheVars == <<config, now, cache, lastLookup>>

VARIABLES
    \* ---- fetchSitemapUrls ----
    smOpts,          \* the SitemapFetchOptions argument
    rootUrl,         \* the sitemapUrl argument, as the caller spelled it
    web,             \* what the server answers for each sitemap path, once asked
    visitedSitemaps, \* the `visitedSitemaps` set
    stack,           \* the active collectSitemapUrls calls, innermost last
    smPc,            \* "running" | "returned" | "threw"
    smResult,        \* the list fetchSitemapUrls returned
    smCollected,     \* `urls` of fetchSitemapUrls: what collectSitemapUrls returned
    fetchCount,      \* fetchSitemapContent calls per sitemap
    parsedOk,        \* sitemaps fetched and parsed successfully
    failedSitemaps,  \* sitemaps whose fetch or parse failed
    skippedByDepth   \* sitemap URLs skipped with the max-depth warning

smVars ==
    <<smOpts, rootUrl, web, visitedSitemaps, stack, smPc, smResult, smCollected,
      fetchCount, parsedOk, failedSitemaps, skippedByDepth>>

VARIABLES
    \* ---- main / runVisualTest of compare-prod-and-preview.ts ----
    targetUrls,   \* `targetUrls`, in discovery order
    pc,           \* where the task of each target is
    prodShot,     \* `prodScreenshot` of each task (Null until there is one)
    hadChanges,   \* what runVisualTest returned for each target
    outcome,      \* per target: the outcomes reported for it
    fileIoQueue,  \* calls waiting for a slot of fileIoLimiter, oldest first
    cmpQueue,     \* calls waiting for a slot of comparisonLimiter, oldest first
    processed,    \* `processed`
    withChanges,  \* `withChanges`
    errorCount,   \* `errorCount`
    failedUrls,   \* `failedUrls`
    mainPc,       \* "awaitingTasks" | "returned"
    exitCode      \* what main returned (NoValue while it runs)

plVars ==
    <<targetUrls, pc, prodShot, hadChanges, outcome, fileIoQueue, cmpQueue,
      processed, withChanges, errorCount, failedUrls, mainPc, exitCode>>

VARIABLES
    \* ---- the start of main of compare-prod-and-preview.ts ----
    args,            \* the command line, as parseArgs reads it
    sweeps,          \* number of cleanOldCache calls
    sweepPhase,      \* per cache file: where its callback of cleanOldCache is
    urlsFromSitemap  \* `urlsFromSitemap`

mainVars == <<args, sweeps, sweepPhase, urlsFromSitemap>>

VARIABLES
    \* ---- what the processing of the targets reports ----
    consoleLines,    \* lines written to the console by takeScreenshot,
                     \* runVisualTest and main once the tasks exist
    errorSummary,    \* the summary appended to VISUAL_TEST_ERROR_LOG, if any
    errorLog         \* the entries logVisualTestError appended to
                     \* VISUAL_TEST_ERROR_LOG, oldest first

repVars == <<consoleLines, errorSummary, errorLog>>

VARIABLES
    \* ---- main of the branch-compare script (src/unnamed/part_000) ----
    brArgs,          \* the command line: help, positionals, option values
    gitHead,         \* the branch the working tree is on
    treeClean,       \* `git status --porcelain` prints nothing
    screenshotFile,  \* SCREENSHOTS_DIR/<filename>.png (NoValue: no such file)
    originalBranch,  \* `originalBranch` (null until it is read)
    brPc,            \* where main is
    brExit,          \* what main returns (NoValue until it is decided)
    brEvents         \* the git checkouts, captures and comparisons made, in order

brVars ==
    <<brArgs, gitHead, treeClean, screenshotFile, originalBranch, brPc, brExit,
      brEvents>>

VARIABLES
    \* ---- the preview URL of a target (transformUrl) ----
    prodUrl,         \* the production URL of the target
    previewArg,      \* the second positional of the command line (NoValue: none)
    previewUrl       \* what transformUrl returned (NoValue before the call)

tuVars == <<prodUrl, previewArg, previewUrl>>

VARIABLES
    \* ---- the task launcher (task-launcher.ts, task-launcher-core.ts) ----
    flags,               \* LauncherFlags
    selectedVisibleTask, \* the task of the run (NoValue until selected)
    history,             \* `history` of main / what loadHistory returned
    taskHistoryValues,   \* the history values of the task
    enteredValues,       \* `enteredValues` / the current input
    mergedValues,        \* what mergeTaskValues returned (NoValue before)
    taskArgs,            \* what buildCommandArgs returned or threw (NoValue before)
    historyFile,         \* content of HISTORY_PATH (NoValue: no such file)
    lnPc,                \* where main of the launcher is
    lnExit,              \* what main returned (NoValue while it runs)
    lnEvents             \* reads and writes of the history file, lines printed
                         \* and commands spawned, in order

lnVars ==
    <<flags, selectedVisibleTask, history, taskHistoryValues, enteredValues,
      mergedValues, taskArgs, historyFile, lnPc, lnExit, lnEvents>>

vars ==
    <<retryVars, cacheVars, smVars, plVars, mainVars, repVars, brVars, tuVars,
      lnVars>>

otherVars == <<tuVars, lnVars>>

\* what the actions of one component leave alone
notRetryVars == <<cacheVars, smVars, plVars, mainVars, repVars, brVars, otherVars>>
notCacheVars == <<retryVars, smVars, plVars, mainVars, repVars, brVars, otherVars>>
notSitemapVars == <<retryVars, cacheVars, plVars, mainVars, repVars, brVars, otherVars>>
notPipelineVars == <<retryVars, smVars, lastLookup, config, now, mainVars, brVars, otherVars>>
notMainVars == <<retryVars, smVars, lastLookup, now, repVars, brVars, otherVars>>
notBranchVars ==
    <<retryVars, cacheVars, smVars, plVars, mainVars, repVars, otherVars>>
notLauncherVars ==
    <<retryVars, cacheVars, smVars, plVars, mainVars, repVars, brVars, tuVars>>

\* an absent optional value (undefined), and a present one
NoValue == <<>>
Unset == <<>>
Some(v) == <<v>>

Max(a, b) == IF a >= b THEN a ELSE b
Min(a, b) == IF a <= b THEN a ELSE b

RECURSIVE Pow(_, _)
Pow(b, e) == IF e = 0 THEN 1 ELSE b * Pow(b, e - 1)

\* `a ?? b` of TypeScript for an optional numeric option
OrDefault(a, b) == IF a = Unset THEN b ELSE a[1]

(***************************************************************************)
(* URLs and file names                                                     *)
(***************************************************************************)
\* A URL string "https://<host>.com/<path>": the host as it is spelled and the
\* characters of the path.
PagePaths == { <<"a", "-", "b">>, <<"a", "_", "b">>, <<"c">>, <<"b">> }
Hosts == {"ex", "EX"}
Lower(c) == IF c = "EX" THEN "ex" ELSE c
Alnum == {"a", "b", "c", "s", "0", "1", "2", "3", "ex", "EX"}

\* `new URL(u).toString()`: the serialised URL has its host in lower case
Serialize(u) == [u EXCEPT !.host = Lower(u.host)]

PageUrls == [host : {"ex"}, path : PagePaths]

\* src/visual-testing-utils.ts urlToFilename:
\* url.replace(/[^a-z0-9]/gi, "_").toLowerCase()
urlToFilename(url) ==
    <<Lower(url.host)>> \o
    [i \in 1 .. Len(url.path) |->
        IF url.path[i] \in Alnum THEN Lower(url.path[i]) ELSE "_"]

Filenames == { urlToFilename(u) : u \in PageUrls }
\* the entries the cache specification reads and writes
CacheSpecFilenames == { <<"ex", "a", "_", "b">>, <<"ex", "c">> }

(***************************************************************************)
(* The prod-screenshot cache                                               *)
(***************************************************************************)
\* Bounds of the clock and of the configured ages, in ticks of 500 ms
MaxTime == 4
MaxTtl == 3

Images == {"img1", "img2"}
Null == <<>>
NoEntry == <<>>
CacheEntry(t, img) == <<[mtimeMs |-> t, data |-> img]>>
CacheEntries == {NoEntry} \cup { CacheEntry(t, img) : t \in 0 .. MaxTime, img \in Images }

\* (variant: an entry whose age equals the TTL still counts as fresh)
IsFreshInclusive(age, cacheTtlMs) == age <= cacheTtlMs
\* line 209: `if (age < cacheTtlMs)`
IsFresh(age, cacheTtlMs) == age < cacheTtlMs

\* lines 199-218 getCachedProdScreenshot: stat and readFile both succeed (ioOk)
\* and the entry is fresh, or null. A missing file makes stat throw.
getCachedProdScreenshot(entry, nowMs, cacheTtlMs, ioOk) ==
    IF /\ entry # NoEntry
       /\ ioOk
       /\ IsFresh(nowMs - entry[1].mtimeMs, cacheTtlMs)
      THEN Some(entry[1].data)
      ELSE Null

\* (variant: a lookup that misses removes the file it found)
EvictOnMiss(entry, got) == IF got = Null THEN NoEntry ELSE entry
\* lines 199-218: the lookup calls stat and readFile only, the file stays
EntryAfterLookup(entry, got) == entry

\* lines 220-227 cacheProdScreenshot: writeFile sets the modification time
cacheProdScreenshot(c, filename, buffer, nowMs) ==
    [c EXCEPT ![filename] = CacheEntry(nowMs, buffer)]

DefaultConfig ==
    [screenshotConcurrency |-> 1, comparisonConcurrency |-> 1,
     fileIoConcurrency |-> 1, cacheTtlMs |-> 1, cacheCleanupAgeMs |-> 1,
     noCache |-> FALSE]

NoLookup == [filename |-> <<>>, at |-> 0, entry |-> NoEntry, ioOk |-> FALSE,
             result |-> Null]

CacheIdle ==
    /\ config = DefaultConfig
    /\ now = 0
    /\ cache = [f \in Filenames |-> NoEntry]
    /\ lastLookup = NoLookup

CacheInit ==
    /\ config \in { [DefaultConfig EXCEPT !.cacheTtlMs = ttl] : ttl \in 1 .. MaxTtl }
    /\ now = 0
    /\ cache = [f \in Filenames |-> NoEntry]
    /\ lastLookup = NoLookup

\* a capture is written to the cache
CachePut(f) ==
    /\ \E img \in Images : cache' = cacheProdScreenshot(cache, f, img, now)
    /\ UNCHANGED <<config, now, lastLookup>>
    /\ UNCHANGED notCacheVars

\* a lookup; the file system may fail the stat or the read
CacheLookup(f) ==
    /\ \E ioOk \in BOOLEAN :
         /\ lastLookup' =
             [filename |-> f, at |-> now, entry |-> cache[f], ioOk |-> ioOk,
              result |-> getCachedProdScreenshot(cache[f], now, config.cacheTtlMs, ioOk)]
         /\ cache' = [cache EXCEPT ![f] =
                EntryAfterLookup(cache[f],
                    getCachedProdScreenshot(cache[f], now, config.cacheTtlMs, ioOk))]
    /\ UNCHANGED <<config, now>>
    /\ UNCHANGED notCacheVars

\* time passes
Tick ==
    /\ now < MaxTime
    /\ now' = now + 1
    /\ UNCHANGED <<config, cache, lastLookup>>
    /\ UNCHANGED notCacheVars

CacheNext ==
    \/ \E f \in CacheSpecFilenames : CachePut(f)
    \/ \E f \in CacheSpecFilenames : CacheLookup(f)
    \/ Tick

(***************************************************************************)
(* The sitemap resolver (src/sitemap-utils.ts)                             *)
(***************************************************************************)
DEFAULT_MAX_NESTED_DEPTH == 8

\* Bounds of the sitemap inputs
MaxLocs == 2

SitemapPaths == { <<"s", "0">>, <<"s", "1">>, <<"s", "2">> }
RootPath == <<"s", "0">>
\* the <loc> values a document can hold
\* the host of a <loc> value that is a relative reference ("/b")
Relative == ""
\* the root sitemap is on one host, the nested sitemaps are on another
HostOf(pth) == IF pth = RootPath THEN "ex" ELSE "cdn"
PageLocs ==
    { [host |-> "ex", path |-> <<"a", "-", "b">>],
      [host |-> "EX", path |-> <<"c">>],
      [host |-> Relative, path |-> <<"b">>] }
SitemapLocs ==
    { [host |-> HostOf(pth), path |-> pth] : pth \in SitemapPaths }
      \cup { [host |-> Relative, path |-> <<"s", "2">>] }

SeqsUpTo(S, n) == UNION { [1 .. k -> S] : k \in 0 .. n }
DistinctSeqsUpTo(S, n) ==
    { q \in SeqsUpTo(S, n) : \A i, j \in DOMAIN q : q[i] = q[j] => i = j }

\* What a server can answer: curl fails (after the retries), a body without
\* any "<", or XML with <url><loc> and <sitemap><loc> entries.
FetchFails == [kind |-> "fetchfail", urls |-> <<>>, nested |-> <<>>]
NotXml == [kind |-> "notxml", urls |-> <<>>, nested |-> <<>>]
XmlDocs ==
    { [kind |-> "xml", urls |-> u, nested |-> n] :
        <<u, n>> \in { pr \in SeqsUpTo(PageLocs, MaxLocs) \X DistinctSeqsUpTo(SitemapLocs, MaxLocs) :
                         Len(pr[1]) + Len(pr[2]) <= MaxLocs } }
Docs == {FetchFails, NotXml} \cup XmlDocs
Unasked == [kind |-> "unasked", urls |-> <<>>, nested |-> <<>>]

Range(q) == { q[i] : i \in DOMAIN q }

\* [...new Set(list)]: the first occurrence of each element, in order
RECURSIVE Unique(_)
Unique(q) ==
    IF q = <<>> THEN <<>>
    ELSE LET r == Unique(SubSeq(q, 1, Len(q) - 1))
         IN IF q[Len(q)] \in Range(r) THEN r ELSE Append(r, q[Len(q)])

\* (variant: a relative reference is resolved against the root sitemap)
resolveAgainstRoot(urlCandidate, parentSitemapUrl) ==
    IF urlCandidate.host = Relative
      THEN [host |-> Lower(rootUrl.host), path |-> urlCandidate.path]
      ELSE Serialize(urlCandidate)
\* lines 23-29 toAbsoluteUrl: new URL(urlCandidate, parentSitemapUrl).toString();
\* a relative reference takes the host of the parent, an absolute one is
\* serialised as it is
toAbsoluteUrl(urlCandidate, parentSitemapUrl) ==
    IF urlCandidate.host = Relative
      THEN [host |-> Lower(parentSitemapUrl.host), path |-> urlCandidate.path]
      ELSE Serialize(urlCandidate)

\* the documents a sitemap URL can answer with: a relative reference to a
\* nested sitemap occurs in the sitemaps of the second host
DocsAt(url) ==
    { d \in Docs :
        \A i \in DOMAIN d.nested :
            d.nested[i].host = Relative => Lower(url.host) = "cdn" }

\* (variant: a document without entries parses to two empty lists)
parseLeniently(doc) ==
    [throws |-> FALSE, urls |-> Unique(doc.urls), nestedSitemaps |-> Unique(doc.nested)]
\* lines 31-64 parseSitemapXml: the parsed lists, or "throws"
parseSitemapXml(doc) ==
    IF doc.kind = "notxml" THEN [throws |-> TRUE, urls |-> <<>>, nestedSitemaps |-> <<>>]
    ELSE IF doc.urls = <<>> /\ doc.nested = <<>>
      THEN [throws |-> TRUE, urls |-> <<>>, nestedSitemaps |-> <<>>]
      ELSE [throws |-> FALSE, urls |-> Unique(doc.urls),
            nestedSitemaps |-> Unique(doc.nested)]

\* lines 117-121
maxDepth(o) == Max(0, OrDefault(o.maxNestedDepth, DEFAULT_MAX_NESTED_DEPTH))
followNestedSitemaps(o) == OrDefault(o.followNestedSitemaps, TRUE)

SitemapOptionSets ==
    [maxNestedDepth : {Unset, Some(0), Some(1)},
     followNestedSitemaps : {Unset, Some(FALSE)},
     maxUrls : {Unset, Some(1), Some(2)}]

Frame(url, depth) ==
    [sitemapUrl |-> url, currentDepth |-> depth, phase |-> "called",
     urls |-> <<>>, pending |-> <<>>]

SitemapIdle ==
    /\ smOpts = [maxNestedDepth |-> Unset, followNestedSitemaps |-> Unset,
                 maxUrls |-> Unset]
    /\ rootUrl = [host |-> "ex", path |-> RootPath]
    /\ web = [p \in SitemapPaths |-> Unasked]
    /\ visitedSitemaps = {}
    /\ stack = <<>>
    /\ smPc = "returned"
    /\ smResult = <<>>
    /\ smCollected = <<>>
    /\ fetchCount = [p \in SitemapPaths |-> 0]
    /\ parsedOk = {}
    /\ failedSitemaps = {}
    /\ skippedByDepth = {}

\* lines 182-192: fetchSitemapUrls calls collectSitemapUrls(sitemapUrl, .., 0)
SitemapInit ==
    /\ smOpts \in SitemapOptionSets
    /\ rootUrl \in [host : Hosts, path : {RootPath}]
    /\ web = [p \in SitemapPaths |-> Unasked]
    /\ visitedSitemaps = {}
    /\ stack = <<Frame(rootUrl, 0)>>
    /\ smPc = "running"
    /\ smResult = <<>>
    /\ smCollected = <<>>
    /\ fetchCount = [p \in SitemapPaths |-> 0]
    /\ parsedOk = {}
    /\ failedSitemaps = {}
    /\ skippedByDepth = {}

Top == stack[Len(stack)]
Caller == SubSeq(stack, 1, Len(stack) - 1)

\* (variant: the collected list is returned as it is)
NoDedup(urls, o) == urls
\* (variant: the list is cut to maxUrls before the duplicates are removed)
TruncateBeforeDedup(urls, o) ==
    IF o.maxUrls # Unset /\ o.maxUrls[1] > 0
      THEN Unique(SubSeq(urls, 1, Min(Len(urls), o.maxUrls[1])))
      ELSE Unique(urls)
\* lines 193-204: the tail of fetchSitemapUrls, once collectSitemapUrls returned
fetchSitemapUrlsTail(urls, o) ==
    LET uniqueUrls == Unique(urls)
    IN IF o.maxUrls # Unset /\ o.maxUrls[1] > 0
         THEN SubSeq(uniqueUrls, 1, Min(Len(uniqueUrls), o.maxUrls[1]))
         ELSE uniqueUrls

\* (variant: the URLs of the nested sitemap are not added)
DropNestedUrls(urls, nestedUrls) == urls
\* line 173: urls.push(...nestedUrls)
PushNestedUrls(urls, nestedUrls) == urls \o nestedUrls

\* `return list` of the innermost collectSitemapUrls call: line 173 of the
\* calling frame (urls.push(...nestedUrls)), or lines 187-204 for the root
ReturnFromTop(list) ==
    IF Len(stack) = 1
      THEN /\ stack' = <<>>
           /\ smPc' = "returned"
           /\ smCollected' = list
           /\ smResult' = fetchSitemapUrlsTail(list, smOpts)
      ELSE /\ stack' = [Caller EXCEPT ![Len(stack) - 1].urls = PushNestedUrls(@, list)]
           /\ UNCHANGED <<smPc, smResult, smCollected>>

\* an error escaping the innermost call unwinds every caller (none catches)
ThrowFromTop ==
    /\ stack' = <<>>
    /\ smPc' = "threw"
    /\ UNCHANGED <<smResult, smCollected>>

\* lines 123-125
AlreadyVisited(url) == url \in visitedSitemaps

\* (variant: one more level is let through)
TooDeepOffByOne(currentDepth, o) == currentDepth > maxDepth(o) + 1
\* line 127: `if (currentDepth > maxDepth)`
TooDeep(currentDepth, o) == currentDepth > maxDepth(o)

\* lines 123-135: the entry of collectSitemapUrls
EnterSitemap ==
    /\ smPc = "running"
    /\ Top.phase = "called"
    /\ IF AlreadyVisited(Top.sitemapUrl)
         THEN /\ ReturnFromTop(<<>>)
              /\ UNCHANGED <<visitedSitemaps, skippedByDepth>>
         ELSE IF TooDeep(Top.currentDepth, smOpts)
           THEN /\ ReturnFromTop(<<>>)
                /\ skippedByDepth' = skippedByDepth \cup {Top.sitemapUrl}
                /\ UNCHANGED visitedSitemaps
           ELSE /\ visitedSitemaps' = visitedSitemaps \cup {Top.sitemapUrl}
                /\ stack' = [stack EXCEPT ![Len(stack)].phase = "fetching"]
                /\ UNCHANGED <<smPc, smResult, smCollected, skippedByDepth>>
    /\ UNCHANGED <<smOpts, rootUrl, web, fetchCount, parsedOk, failedSitemaps>>
    /\ UNCHANGED notSitemapVars

\* (variant: the failure propagates to the caller)
FailureAbortsRun(path) == ThrowFromTop
\* lines 140-145 and 150-155: the catch blocks return []
OnFetchOrParseFailure(path) == ReturnFromTop(<<>>)

\* lines 137-163: fetchSitemapContent (with its retries), parseSitemapXml and
\* the mapping of the page URLs
FetchAndParse ==
    /\ smPc = "running"
    /\ Top.phase = "fetching"
    /\ LET path == Top.sitemapUrl.path
       IN /\ fetchCount' = [fetchCount EXCEPT ![path] = @ + 1]
          /\ \E doc \in (IF web[path] = Unasked THEN DocsAt(Top.sitemapUrl)
                                                  ELSE {web[path]}) :
               /\ web' = [web EXCEPT ![path] = doc]
               /\ LET parsed == parseSitemapXml(doc)
                      urls == [i \in DOMAIN parsed.urls |->
                                 toAbsoluteUrl(parsed.urls[i], Top.sitemapUrl)]
                  IN IF doc.kind = "fetchfail" \/ parsed.throws
                       THEN /\ OnFetchOrParseFailure(path)
                            /\ failedSitemaps' = failedSitemaps \cup {path}
                            /\ UNCHANGED parsedOk
                       ELSE /\ parsedOk' = parsedOk \cup {path}
                            /\ UNCHANGED failedSitemaps
                            /\ IF ~followNestedSitemaps(smOpts)
                                  \/ parsed.nestedSitemaps = <<>>
                                 THEN ReturnFromTop(urls)
                                 ELSE /\ stack' = [stack EXCEPT ![Len(stack)] =
                                            [@ EXCEPT !.phase = "looping",
                                                      !.urls = urls,
                                                      !.pending = parsed.nestedSitemaps]]
                                      /\ UNCHANGED <<smPc, smResult, smCollected>>
    /\ UNCHANGED <<smOpts, rootUrl, visitedSitemaps, skippedByDepth>>
    /\ UNCHANGED notSitemapVars

\* lines 165-172: the next nested sitemap is resolved by a recursive call
RecurseIntoNested ==
    /\ smPc = "running"
    /\ Top.phase = "looping"
    /\ Top.pending # <<>>
    /\ stack' = Append(
           [stack EXCEPT ![Len(stack)].pending = Tail(@)],
           Frame(toAbsoluteUrl(Head(Top.pending), Top.sitemapUrl),
                 Top.currentDepth + 1))
    /\ UNCHANGED <<smOpts, rootUrl, web, visitedSitemaps, smPc, smResult, smCollected,
                   fetchCount, parsedOk, failedSitemaps, skippedByDepth>>
    /\ UNCHANGED notSitemapVars

\* line 176: the loop is over
ReturnCollected ==
    /\ smPc = "running"
    /\ Top.phase = "looping"
    /\ Top.pending = <<>>
    /\ ReturnFromTop(Top.urls)
    /\ UNCHANGED <<smOpts, rootUrl, web, visitedSitemaps,
                   fetchCount, parsedOk, failedSitemaps, skippedByDepth>>
    /\ UNCHANGED notSitemapVars

SitemapNext ==
    \/ EnterSitemap
    \/ FetchAndParse
    \/ RecurseIntoNested
    \/ ReturnCollected

(***************************************************************************)
(* The prod/preview pipeline (src/compare-prod-and-preview.ts)             *)
(***************************************************************************)
\* Bounds of the pipeline inputs
MaxTargets == 3
MaxConcurrency == 2

AllTargets ==
    << [host |-> "ex", path |-> <<"a", "-", "b">>],
       [host |-> "ex", path |-> <<"a", "_", "b">>],
       [host |-> "ex", path |-> <<"c">>],
       [host |-> "ex", path |-> <<"b">>] >>
TargetLists == { SubSeq(AllTargets, 1, n) : n \in 1 .. Min(MaxTargets, Len(AllTargets)) }

Targets == DOMAIN targetUrls
TargetIds == 1 .. MaxTargets

\* A thrown value: what it is, and the words of its text that classifyError
\* looks for (spelled as the text spells them)
Err(words) == [kind |-> "Error", words |-> words]
CaptureErrors == { Err({"screenshot"}), Err({"abort"}) }
CacheWriteErrors == { Err({"EACCES"}) }
SaveErrors == { Err({"ENOENT"}) }
CompareErrors == { Err({}) }
DiffErrors == { Err({}) }

\* the values a `throw` can raise: an Error, a string, an object (its words are
\* those of its JSON text), null and undefined
ThrownWords ==
    { {}, {"Timeout"}, {"screenshot"}, {"ENOENT"}, {"pixelmatch"},
      {"screenshot", "Timeout"}, {"capture", "ENOENT"}, {"compare", "EACCES"},
      {"ETIMEDOUT", "compare"} }
ThrownValues ==
    [kind : {"Error", "string", "object"}, words : ThrownWords]
      \cup { [kind |-> "null", words |-> {}], [kind |-> "undefined", words |-> {}] }

\* src/visual-testing-utils.ts lines 60-74 getErrorMessage: the message of an
\* Error, a string itself, else JSON.stringify(error), which is "null" for null
\* and is not a string (undefined) for undefined
getErrorMessage(error) ==
    IF error.kind \in {"Error", "string", "object"} THEN Some(error.words)
    ELSE IF error.kind = "null" THEN Some({"null"})
    ELSE NoValue

\* String.prototype.toLowerCase, on the words of a text
toLowerCase(words) ==
    { IF w = "Timeout" THEN "timeout"
      ELSE IF w = "ETIMEDOUT" THEN "etimedout"
      ELSE IF w = "ENOENT" THEN "enoent"
      ELSE IF w = "EACCES" THEN "eacces"
      ELSE w : w \in words }

\* (variant: the screenshot rule is tried before the timeout rule)
classifyScreenshotFirst(message) ==
    IF message \cap {"screenshot", "capture"} # {} THEN "SCREENSHOT_FAILURE"
    ELSE IF message \cap {"timeout", "etimedout", "abort"} # {} THEN "NETWORK_TIMEOUT"
    ELSE IF message \cap {"enoent", "eacces"} # {} THEN "FILE_IO_ERROR"
    ELSE IF message \cap {"compare", "pixelmatch"} # {} THEN "COMPARISON_ERROR"
    ELSE "UNKNOWN"
\* src/visual-testing-utils.ts lines 455-472: the rules of classifyError, on the
\* lower-cased message
classifyMessage(message) ==
    IF message \cap {"timeout", "etimedout", "abort"} # {} THEN "NETWORK_TIMEOUT"
    ELSE IF message \cap {"screenshot", "capture"} # {} THEN "SCREENSHOT_FAILURE"
    ELSE IF message \cap {"enoent", "eacces"} # {} THEN "FILE_IO_ERROR"
    ELSE IF message \cap {"compare", "pixelmatch"} # {} THEN "COMPARISON_ERROR"
    ELSE "UNKNOWN"

\* line 453: `getErrorMessage(error).toLowerCase()` raises a TypeError when
\* getErrorMessage returned undefined
classifyErrorThrows(error) == getErrorMessage(error) = NoValue
\* src/visual-testing-utils.ts lines 452-473 classifyError
classifyError(error) == classifyMessage(toLowerCase(getErrorMessage(error)[1]))

\* (variant: a call also starts when `concurrency` calls are running)
AdmitsOneTooMany(active, concurrency) == active <= concurrency
\* p-limit: a call starts when fewer than `concurrency` calls are running
HasFreeSlot(active, concurrency) == active < concurrency

\* the states of a task between its start and the end of its callback
InScreenshotSlot(t) == pc[t] \notin {"queued", "done", "rejected"}
ScreenshotActive == Cardinality({ t \in Targets : InScreenshotSlot(t) })
FileIoActive == Cardinality({ t \in Targets : pc[t] = "saving" })
ComparisonActive == Cardinality({ t \in Targets : pc[t] = "comparing" })

PipelineIdle ==
    /\ targetUrls = <<>>
    /\ pc = <<>>
    /\ prodShot = <<>>
    /\ hadChanges = <<>>
    /\ outcome = <<>>
    /\ fileIoQueue = <<>>
    /\ cmpQueue = <<>>
    /\ processed = 0
    /\ withChanges = 0
    /\ errorCount = 0
    /\ failedUrls = <<>>
    /\ mainPc = "returned"
    /\ exitCode = NoValue
    /\ consoleLines = {}
    /\ errorSummary = NoValue
    /\ errorLog = <<>>

\* lines 389-425: the limiters are built, the targets are known, the counters
\* are zero and every target is handed to screenshotLimiter
PipelineInit ==
    /\ config \in
         [screenshotConcurrency : 1 .. MaxConcurrency,
          comparisonConcurrency : 1 .. MaxConcurrency,
          fileIoConcurrency : 1 .. MaxConcurrency,
          cacheTtlMs : {MaxTtl}, cacheCleanupAgeMs : {MaxTime},
          noCache : BOOLEAN]
    /\ now = MaxTime
    /\ \E entry \in {NoEntry, CacheEntry(0, "img1"), CacheEntry(MaxTime, "img1")} :
         cache = [f \in Filenames |-> entry]
    /\ (config.noCache => cache = [f \in Filenames |-> NoEntry])
    /\ lastLookup = NoLookup
    /\ targetUrls \in TargetLists
    /\ pc = [t \in Targets |-> "queued"]
    /\ prodShot = [t \in Targets |-> Null]
    /\ hadChanges = [t \in Targets |-> FALSE]
    /\ outcome = [t \in Targets |-> {}]
    /\ fileIoQueue = <<>>
    /\ cmpQueue = <<>>
    /\ processed = 0
    /\ withChanges = 0
    /\ errorCount = 0
    /\ failedUrls = <<>>
    /\ mainPc = "awaitingTasks"
    /\ exitCode = NoValue
    /\ consoleLines = {}
    /\ errorSummary = NoValue
    /\ errorLog = <<>>

Running == mainPc = "awaitingTasks"

\* a line of the console: its stream, its text, the capture it is about (when
\* it is about one) and the target or the number it names
Line(stream, text, side, n) == [stream |-> stream, text |-> text, side |-> side, n |-> n]
\* src/visual-testing-utils.ts lines 301-304 and 441-447: the catch of
\* takeScreenshot calls logError, whose console.error prints the failure
logError(side, t) == Line("error", "Error taking screenshot for URL", side, t)

\* (variant: the list is replaced by the new record)
ReplaceFailures(list, rec) == <<rec>>
\* line 322: failedUrls.push(...)
RecordFailure(list, rec) == Append(list, rec)

\* (variant: the catch block rethrows, so the task rejects)
RethrowToTask(t, error) ==
    /\ pc' = [pc EXCEPT ![t] = "rejected"]
    /\ UNCHANGED <<errorLog, errorCount, failedUrls, outcome, hadChanges>>
\* (variant: the number is read before the counter is incremented)
NumberBeforeIncrement(count) == count
\* lines 430-433: `errorCount++; return errorCount`
getErrorNumber(count) == count + 1

\* src/visual-testing-utils.ts lines 478-505 logVisualTestError: the entry
\* appended to VISUAL_TEST_ERROR_LOG
logVisualTestError(url, error, errorNumber) ==
    [errorNumber |-> errorNumber, url |-> url, errorType |-> classifyError(error),
     message |-> getErrorMessage(error)[1]]

\* lines 318-330: the catch block of runVisualTest, then `return false`; when
\* classifyError raises (inside logVisualTestError, line 320) the exception
\* leaves runVisualTest, whose promise rejects
CatchBlock(t, error) ==
    /\ errorCount' = errorCount + 1
    /\ IF classifyErrorThrows(error)
       THEN /\ pc' = [pc EXCEPT ![t] = "rejected"]
            /\ UNCHANGED <<errorLog, failedUrls, outcome, hadChanges>>
       ELSE /\ errorLog' = Append(errorLog,
                   logVisualTestError(targetUrls[t], error, getErrorNumber(errorCount)))
            /\ failedUrls' = RecordFailure(failedUrls,
                   [url |-> targetUrls[t], errorType |-> classifyError(error),
                    message |-> getErrorMessage(error)[1],
                    errorNumber |-> getErrorNumber(errorCount)])
            /\ outcome' = [outcome EXCEPT ![t] = @ \cup {"failed"}]
            /\ hadChanges' = [hadChanges EXCEPT ![t] = FALSE]
            /\ pc' = [pc EXCEPT ![t] = "returned"]

\* lines 425-426: screenshotLimiter starts the callback of the next target;
\* lines 269-279: runVisualTest runs up to its first await
StartTask(t) ==
    /\ Running /\ t \in Targets
    /\ pc[t] = "queued"
    /\ \A u \in Targets : u < t => pc[u] # "queued"
    /\ HasFreeSlot(ScreenshotActive, config.screenshotConcurrency)
    /\ pc' = [pc EXCEPT ![t] = IF config.noCache THEN "captureProd" ELSE "cacheLookup"]
    /\ UNCHANGED <<targetUrls, prodShot, hadChanges, outcome, fileIoQueue, cmpQueue,
                   processed, withChanges, errorCount, failedUrls, mainPc, exitCode,
                   cache>>
    /\ UNCHANGED notPipelineVars
    /\ UNCHANGED repVars

\* (variant: the production page is captured whatever the lookup returned)
AlwaysCapture(got) == "captureProd"
\* line 281: `if (!prodScreenshot)`
AfterLookup(got) == IF got = Null THEN "captureProd" ELSE "capturePreview"

\* lines 275-281: getCachedProdScreenshot settles
LookupSettles(t) ==
    /\ Running /\ t \in Targets
    /\ pc[t] = "cacheLookup"
    /\ \E ioOk \in BOOLEAN :
         LET got == getCachedProdScreenshot(cache[urlToFilename(targetUrls[t])],
                                            now, config.cacheTtlMs, ioOk)
             f == urlToFilename(targetUrls[t])
         IN /\ prodShot' = [prodShot EXCEPT ![t] = got]
            /\ pc' = [pc EXCEPT ![t] = AfterLookup(got)]
            /\ cache' = [cache EXCEPT ![f] = EntryAfterLookup(cache[f], got)]
    /\ UNCHANGED <<targetUrls, hadChanges, outcome, fileIoQueue, cmpQueue,
                   processed, withChanges, errorCount, failedUrls, mainPc, exitCode>>
    /\ UNCHANGED notPipelineVars
    /\ UNCHANGED repVars

\* lines 282-285: takeScreenshot(prodUrl) settles
ProdCaptureSettles(t) ==
    /\ Running /\ t \in Targets
    /\ pc[t] = "captureProd"
    /\ \/ /\ prodShot' = [prodShot EXCEPT ![t] = Some("img2")]
          /\ pc' = [pc EXCEPT ![t] = IF config.noCache THEN "capturePreview"
                                                       ELSE "cacheWrite"]
          /\ UNCHANGED <<errorLog, errorCount, failedUrls, outcome, hadChanges, consoleLines>>
       \/ /\ \E e \in CaptureErrors : CatchBlock(t, e)
          /\ consoleLines' = consoleLines \cup {logError("prod", t)}
          /\ UNCHANGED prodShot
    /\ UNCHANGED <<targetUrls, fileIoQueue, cmpQueue, processed, withChanges,
                   mainPc, exitCode, cache>>
    /\ UNCHANGED notPipelineVars
    /\ UNCHANGED errorSummary

\* line 284: cacheProdScreenshot settles
CacheWriteSettles(t) ==
    /\ Running /\ t \in Targets
    /\ pc[t] = "cacheWrite"
    /\ \/ /\ cache' = cacheProdScreenshot(cache, urlToFilename(targetUrls[t]),
                                          prodShot[t][1], now)
          /\ pc' = [pc EXCEPT ![t] = "capturePreview"]
          /\ UNCHANGED <<errorLog, errorCount, failedUrls, outcome, hadChanges>>
       \/ /\ \E e \in CacheWriteErrors : CatchBlock(t, e)
          /\ UNCHANGED cache
    /\ UNCHANGED <<targetUrls, prodShot, fileIoQueue, cmpQueue, processed,
                   withChanges, mainPc, exitCode>>
    /\ UNCHANGED notPipelineVars
    /\ UNCHANGED <<consoleLines, errorSummary>>

\* lines 288-293: takeScreenshot(previewUrl) settles; on success the save is
\* handed to fileIoLimiter
PreviewCaptureSettles(t) ==
    /\ Running /\ t \in Targets
    /\ pc[t] = "capturePreview"
    /\ \/ /\ pc' = [pc EXCEPT ![t] = "saveWait"]
          /\ fileIoQueue' = Append(fileIoQueue, t)
          /\ UNCHANGED <<errorLog, errorCount, failedUrls, outcome, hadChanges, consoleLines>>
       \/ /\ \E e \in CaptureErrors : CatchBlock(t, e)
          /\ consoleLines' = consoleLines \cup {logError("preview", t)}
          /\ UNCHANGED fileIoQueue
    /\ UNCHANGED <<targetUrls, prodShot, cmpQueue, processed, withChanges,
                   mainPc, exitCode, cache>>
    /\ UNCHANGED notPipelineVars
    /\ UNCHANGED errorSummary

\* line 293: fileIoLimiter starts saveComparisonScreenshotsAsync
SaveStarts(t) ==
    /\ Running /\ t \in Targets
    /\ pc[t] = "saveWait"
    /\ fileIoQueue # <<>> /\ Head(fileIoQueue) = t
    /\ HasFreeSlot(FileIoActive, config.fileIoConcurrency)
    /\ fileIoQueue' = Tail(fileIoQueue)
    /\ pc' = [pc EXCEPT ![t] = "saving"]
    /\ UNCHANGED <<targetUrls, prodShot, hadChanges, outcome, cmpQueue,
                   processed, withChanges, errorCount, failedUrls, mainPc, exitCode,
                   cache>>
    /\ UNCHANGED notPipelineVars
    /\ UNCHANGED repVars

\* lines 293-301: the save settles; on success the comparison is handed to
\* comparisonLimiter
SaveSettles(t) ==
    /\ Running /\ t \in Targets
    /\ pc[t] = "saving"
    /\ \/ /\ pc' = [pc EXCEPT ![t] = "compareWait"]
          /\ cmpQueue' = Append(cmpQueue, t)
          /\ UNCHANGED <<errorLog, errorCount, failedUrls, outcome, hadChanges>>
       \/ /\ \E e \in SaveErrors : CatchBlock(t, e)
          /\ UNCHANGED cmpQueue
    /\ UNCHANGED <<targetUrls, prodShot, fileIoQueue, processed, withChanges,
                   mainPc, exitCode, cache>>
    /\ UNCHANGED notPipelineVars
    /\ UNCHANGED <<consoleLines, errorSummary>>

\* line 301: comparisonLimiter starts compareScreenshots
CompareStarts(t) ==
    /\ Running /\ t \in Targets
    /\ pc[t] = "compareWait"
    /\ cmpQueue # <<>> /\ Head(cmpQueue) = t
    /\ HasFreeSlot(ComparisonActive, config.comparisonConcurrency)
    /\ cmpQueue' = Tail(cmpQueue)
    /\ pc' = [pc EXCEPT ![t] = "comparing"]
    /\ UNCHANGED <<targetUrls, prodShot, hadChanges, outcome, fileIoQueue,
                   processed, withChanges, errorCount, failedUrls, mainPc, exitCode,
                   cache>>
    /\ UNCHANGED notPipelineVars
    /\ UNCHANGED repVars

\* lines 301-317: compareScreenshots settles: no differing pixel (`return
\* false`), some differing pixels (createDiffImage is called), or an error
CompareSettles(t) ==
    /\ Running /\ t \in Targets
    /\ pc[t] = "comparing"
    /\ \/ /\ pc' = [pc EXCEPT ![t] = "returned"]
          /\ outcome' = [outcome EXCEPT ![t] = @ \cup {"unchanged"}]
          /\ hadChanges' = [hadChanges EXCEPT ![t] = FALSE]
          /\ consoleLines' = consoleLines \cup {Line("log", "No changes", "", t)}
          /\ UNCHANGED <<errorLog, errorCount, failedUrls>>
       \/ /\ pc' = [pc EXCEPT ![t] = "diffing"]
          /\ UNCHANGED <<errorLog, errorCount, failedUrls, outcome, hadChanges, consoleLines>>
       \/ /\ \E e \in CompareErrors : CatchBlock(t, e)
          /\ UNCHANGED consoleLines
    /\ UNCHANGED <<targetUrls, prodShot, fileIoQueue, cmpQueue, processed,
                   withChanges, mainPc, exitCode, cache>>
    /\ UNCHANGED notPipelineVars
    /\ UNCHANGED errorSummary

\* lines 306-313: createDiffImage settles, then `return true`
DiffSettles(t) ==
    /\ Running /\ t \in Targets
    /\ pc[t] = "diffing"
    /\ \/ /\ pc' = [pc EXCEPT ![t] = "returned"]
          /\ outcome' = [outcome EXCEPT ![t] = @ \cup {"changed"}]
          /\ hadChanges' = [hadChanges EXCEPT ![t] = TRUE]
          /\ consoleLines' = consoleLines \cup {Line("log", "Changes", "", t)}
          /\ UNCHANGED <<errorLog, errorCount, failedUrls>>
       \/ /\ \E e \in DiffErrors : CatchBlock(t, e)
          /\ UNCHANGED consoleLines
    /\ UNCHANGED <<targetUrls, prodShot, fileIoQueue, cmpQueue, processed,
                   withChanges, mainPc, exitCode, cache>>
    /\ UNCHANGED notPipelineVars
    /\ UNCHANGED errorSummary

\* (variant: every processed target is counted as changed)
CountAlways(n, changed) == n + 1
\* lines 440-442
CountChange(n, changed) == IF changed THEN n + 1 ELSE n

\* line 35
PROGRESS_LOG_INTERVAL == 10
\* lines 446-447
shouldLog(n, total) == n % PROGRESS_LOG_INTERVAL = 0 \/ n = total

\* lines 427-464: the callback resumes after `await runVisualTest(...)`
TaskCompletes(t) ==
    /\ Running /\ t \in Targets
    /\ pc[t] = "returned"
    /\ withChanges' = CountChange(withChanges, hadChanges[t])
    /\ processed' = processed + 1
    /\ pc' = [pc EXCEPT ![t] = "done"]
    /\ consoleLines' =
         IF shouldLog(processed + 1, Len(targetUrls))
         THEN consoleLines \cup {Line("log", "Progress", "", processed + 1)}
         ELSE consoleLines
    /\ UNCHANGED <<targetUrls, prodShot, hadChanges, outcome, fileIoQueue, cmpQueue,
                   errorCount, failedUrls, mainPc, exitCode, cache>>
    /\ UNCHANGED notPipelineVars
    /\ UNCHANGED <<errorSummary, errorLog>>

\* the kinds of the taxonomy (ErrorType)
ErrorTypes ==
    {"NETWORK_TIMEOUT", "SCREENSHOT_FAILURE", "COMPARISON_ERROR", "FILE_IO_ERROR",
     "UNKNOWN"}
\* (variant: a kind is counted once, however many records have it)
countOncePerKind(list) ==
    [type \in ErrorTypes |->
        IF \E i \in DOMAIN list : list[i].errorType = type THEN 1 ELSE 0]
\* src/visual-testing-utils.ts lines 518-528: errorCounts
errorCounts(list) ==
    [type \in ErrorTypes |->
        Cardinality({ i \in DOMAIN list : list[i].errorType = type })]
\* src/visual-testing-utils.ts lines 517-562 writeErrorSummary: the totals, the
\* breakdown over the kinds that occurred and the numbered list of failures
writeErrorSummary(summary) ==
    LET counts == errorCounts(summary.failedUrls)
    IN [totalUrls |-> summary.totalUrls,
        urlsWithChanges |-> summary.urlsWithChanges,
        urlsFailed |-> summary.urlsFailed,
        breakdown |-> [type \in { ty \in ErrorTypes : counts[ty] > 0 } |-> counts[type]],
        failed |-> [i \in DOMAIN summary.failedUrls |->
                      [n |-> i, url |-> summary.failedUrls[i].url,
                       errorType |-> summary.failedUrls[i].errorType]]]

\* lines 467-494: Promise.all settles: every task resolved (the summary is
\* printed, the error summary is written when a target failed, return 0) or
\* one task rejected (the catch of main prints the error, return 1)
MainReturns ==
    /\ Running
    /\ \/ \A t \in Targets : pc[t] = "done"
       \/ \E t \in Targets : pc[t] = "rejected"
    /\ IF \E t \in Targets : pc[t] = "rejected"
       THEN /\ exitCode' = Some(1)
            /\ consoleLines' =
                 consoleLines \cup {Line("error", "Error running visual tests", "", 0)}
            /\ UNCHANGED errorSummary
       ELSE /\ exitCode' = Some(0)
            /\ consoleLines' =
                 consoleLines
                   \cup {Line("log", "Processed", "", processed),
                         Line("log", "With changes", "", withChanges)}
                   \cup (IF Len(failedUrls) > 0
                         THEN {Line("log", "URL(s) failed", "", Len(failedUrls))}
                         ELSE {})
            /\ errorSummary' =
                 IF Len(failedUrls) > 0
                 THEN Some(writeErrorSummary(
                          [totalUrls |-> processed, urlsWithChanges |-> withChanges,
                           urlsFailed |-> Len(failedUrls), failedUrls |-> failedUrls]))
                 ELSE errorSummary
    /\ mainPc' = "returned"
    /\ UNCHANGED errorLog
    /\ UNCHANGED <<targetUrls, pc, prodShot, hadChanges, outcome, fileIoQueue,
                   cmpQueue, processed, withChanges, errorCount, failedUrls, cache>>
    /\ UNCHANGED notPipelineVars

PipelineNext ==
    \/ \E t \in TargetIds : StartTask(t)
    \/ \E t \in TargetIds : LookupSettles(t)
    \/ \E t \in TargetIds : ProdCaptureSettles(t)
    \/ \E t \in TargetIds : CacheWriteSettles(t)
    \/ \E t \in TargetIds : PreviewCaptureSettles(t)
    \/ \E t \in TargetIds : SaveStarts(t)
    \/ \E t \in TargetIds : SaveSettles(t)
    \/ \E t \in TargetIds : CompareStarts(t)
    \/ \E t \in TargetIds : CompareSettles(t)
    \/ \E t \in TargetIds : DiffSettles(t)
    \/ \E t \in TargetIds : TaskCompletes(t)
    \/ MainReturns

(***************************************************************************)
(* The start of main (src/compare-prod-and-preview.ts lines 348-417)       *)
(***************************************************************************)
DEFAULT_CACHE_TTL_MS == 24 * 60 * 60 * 1000
DEFAULT_CACHE_CLEANUP_AGE_MS == 7 * 24 * 60 * 60 * 1000
\* milliseconds as clock ticks of 500 ms
Ticks(ms) == ms \div 500

\* lines 89-103 parsePositiveInt: undefined stays undefined, a value that is
\* not a positive integer throws
parsePositiveInt(value) ==
    IF value = Unset THEN [throws |-> FALSE, value |-> Unset]
    ELSE IF value[1] <= 0 THEN [throws |-> TRUE, value |-> Unset]
    ELSE [throws |-> FALSE, value |-> value]

\* the command lines: --help, the sitemap URL, --cache-ttl-ms,
\* --cache-cleanup-age-ms (both in ticks) and --no-cache
ArgSets ==
    [help : BOOLEAN, sitemapUrl : BOOLEAN,
     cacheTtlMs : {Unset, Some(0), Some(MaxTtl)},
     cacheCleanupAgeMs : {Unset, Some(1), Some(MaxTime - 1)},
     noCache : BOOLEAN]
NoArgs ==
    [help |-> FALSE, sitemapUrl |-> FALSE, cacheTtlMs |-> Unset,
     cacheCleanupAgeMs |-> Unset, noCache |-> FALSE]

\* lines 119-193 getScriptConfig
GetScriptConfigThrows(a) ==
    \/ parsePositiveInt(a.cacheTtlMs).throws
    \/ parsePositiveInt(a.cacheCleanupAgeMs).throws
getScriptConfig(a) ==
    [screenshotConcurrency |-> 2, comparisonConcurrency |-> 1,
     fileIoConcurrency |-> 1,
     cacheTtlMs |-> OrDefault(parsePositiveInt(a.cacheTtlMs).value,
                              Ticks(DEFAULT_CACHE_TTL_MS)),
     cacheCleanupAgeMs |-> OrDefault(parsePositiveInt(a.cacheCleanupAgeMs).value,
                                     Ticks(DEFAULT_CACHE_CLEANUP_AGE_MS)),
     noCache |-> a.noCache]

\* lines 39-48 and 195-197: URL_FILTERS and shouldTestUrl
EndsWith(path, suffix) ==
    /\ Len(path) >= Len(suffix)
    /\ SubSeq(path, Len(path) - Len(suffix) + 1, Len(path)) = suffix
Contains(path, part) ==
    \E i \in 1 .. Len(path) :
        /\ i + Len(part) - 1 <= Len(path)
        /\ SubSeq(path, i, i + Len(part) - 1) = part
shouldTestUrl(url) ==
    /\ ~Contains(url.path, <<"/", "a", "p", "i", "/">>)
    /\ ~EndsWith(url.path, <<".", "x", "m", "l">>)
    /\ ~EndsWith(url.path, <<".", "r", "s", "s">>)
    /\ ~EndsWith(url.path, <<".", "j", "s", "o", "n">>)
    /\ ~Contains(url.path, <<"/", "w", "p", "-", "j", "s", "o", "n", "/">>)
    /\ ~Contains(url.path, <<"/", "a", "d", "m", "i", "n", "/">>)
RECURSIVE Filter(_)
Filter(urls) ==
    IF urls = <<>> THEN <<>>
    ELSE IF shouldTestUrl(Head(urls)) THEN <<Head(urls)>> \o Filter(Tail(urls))
    ELSE Filter(Tail(urls))

\* what fetchSitemapUrls can return to main: nothing (the root sitemap could
\* not be fetched or parsed, or lists nothing), excluded URLs only, or pages
FeedUrl == [host |-> "ex", path |-> <<"f", ".", "x", "m", "l">>]
ApiUrl == [host |-> "ex", path |-> <<"/", "a", "p", "i", "/", "v">>]
DiscoveryResults ==
    { <<>>, <<FeedUrl, ApiUrl>>, <<AllTargets[1]>>,
      <<AllTargets[1], FeedUrl, AllTargets[3]>> }

MainIdle ==
    /\ args = NoArgs
    /\ sweeps = 0
    /\ sweepPhase = [f \in Filenames |-> "none"]
    /\ urlsFromSitemap = <<>>

taskVars ==
    <<targetUrls, pc, prodShot, hadChanges, outcome, fileIoQueue, cmpQueue,
      processed, withChanges, errorCount, failedUrls>>

\* a run of main from its first line: the command line, the cache directory
\* as earlier runs left it (entries of various ages), nothing done yet
MainInit ==
    /\ args \in ArgSets
    /\ config = DefaultConfig
    /\ now = MaxTime
    /\ \E e1 \in {NoEntry} \cup { CacheEntry(t, "img1") : t \in {0, 1, 2, MaxTime} } :
       \E e2 \in {NoEntry, CacheEntry(0, "img1")} :
         cache = [f \in Filenames |->
                    IF f = urlToFilename(AllTargets[1]) THEN e1
                    ELSE IF f = urlToFilename(AllTargets[3]) THEN e2
                    ELSE NoEntry]
    /\ lastLookup = NoLookup
    /\ sweeps = 0
    /\ sweepPhase = [f \in Filenames |-> "none"]
    /\ urlsFromSitemap = <<>>
    /\ targetUrls = <<>>
    /\ pc = <<>>
    /\ prodShot = <<>>
    /\ hadChanges = <<>>
    /\ outcome = <<>>
    /\ fileIoQueue = <<>>
    /\ cmpQueue = <<>>
    /\ processed = 0
    /\ withChanges = 0
    /\ errorCount = 0
    /\ failedUrls = <<>>
    /\ mainPc = "start"
    /\ exitCode = NoValue
    /\ consoleLines = {}
    /\ errorSummary = NoValue
    /\ errorLog = <<>>

\* src/task-launcher.ts line 22: HISTORY_PATH is
\* path.join(".cache", "task-launcher-history.json"), a file of the directory
\* CACHE_DIR (".cache", compare-prod-and-preview.ts line 37) that readdir lists
HISTORY_FILE == <<"task-launcher-history", "json">>
CacheDirFiles == Filenames \cup {HISTORY_FILE}

\* main starts in a working directory where the task launcher has saved its
\* history some time ago
CacheDirInit ==
    /\ args \in ArgSets
    /\ config = DefaultConfig
    /\ now = MaxTime
    /\ \E e1 \in {NoEntry, CacheEntry(0, "img1")} :
       \E h \in { CacheEntry(t, "img1") : t \in {0, 2, MaxTime} } :
         cache = [f \in CacheDirFiles |->
                    IF f = urlToFilename(AllTargets[1]) THEN e1
                    ELSE IF f = HISTORY_FILE THEN h
                    ELSE NoEntry]
    /\ lastLookup = NoLookup
    /\ sweeps = 0
    /\ sweepPhase = [f \in CacheDirFiles |-> "none"]
    /\ urlsFromSitemap = <<>>
    /\ targetUrls = <<>>
    /\ pc = <<>>
    /\ prodShot = <<>>
    /\ hadChanges = <<>>
    /\ outcome = <<>>
    /\ fileIoQueue = <<>>
    /\ cmpQueue = <<>>
    /\ processed = 0
    /\ withChanges = 0
    /\ errorCount = 0
    /\ failedUrls = <<>>
    /\ mainPc = "start"
    /\ exitCode = NoValue
    /\ consoleLines = {}
    /\ errorSummary = NoValue
    /\ errorLog = <<>>

\* `return code` of main
MainExits(code) ==
    /\ mainPc' = "returned"
    /\ exitCode' = Some(code)
\* an error outside the try blocks of main: the promise of main rejects
MainRejects ==
    /\ mainPc' = "threw"
    /\ UNCHANGED exitCode

\* lines 349-373: the configuration is read; --help, a bad value or a missing
\* sitemap URL end the run
ReadConfig ==
    /\ mainPc = "start"
    /\ IF GetScriptConfigThrows(args) THEN MainExits(1) /\ UNCHANGED config
       ELSE IF args.help THEN MainExits(0) /\ UNCHANGED config
       ELSE IF ~args.sitemapUrl THEN MainExits(1) /\ UNCHANGED config
       ELSE /\ config' = getScriptConfig(args)
            /\ mainPc' = "preparing"
            /\ UNCHANGED exitCode
    /\ UNCHANGED <<taskVars, cache, mainVars>>
    /\ UNCHANGED notMainVars

\* lines 374-375: ensureDirectoriesExistAsync and initializeErrorLog
PrepareOutput ==
    /\ mainPc = "preparing"
    /\ \/ mainPc' = "sweepCall" /\ UNCHANGED exitCode
       \/ MainRejects
    /\ UNCHANGED <<taskVars, cache, config, mainVars>>
    /\ UNCHANGED notMainVars

\* lines 376 and 229-246: cleanOldCache is called; readdir fails (the catch
\* ends the sweep) or one callback per file of CACHE_DIR starts
SweepReadsDir ==
    /\ mainPc = "sweepCall"
    /\ sweeps' = sweeps + 1
    /\ \/ /\ mainPc' = "runDir"
          /\ UNCHANGED sweepPhase
       \/ /\ mainPc' = "sweeping"
          /\ sweepPhase' = [f \in DOMAIN cache |->
                              IF cache[f] # NoEntry THEN "stat" ELSE "none"]
    /\ UNCHANGED <<taskVars, cache, config, exitCode, args, urlsFromSitemap>>
    /\ UNCHANGED notMainVars

\* the process is alive: main has not ended it with a non-zero status
Alive == mainPc # "threw" /\ exitCode # Some(1)

\* (variant: an entry whose age equals maxAgeMs is removed too)
IsOldInclusive(age, maxAgeMs) == age >= maxAgeMs
\* line 238: `if (age > maxAgeMs)`
IsOld(age, maxAgeMs) == age > maxAgeMs

\* lines 236-238: the stat of one file settles
SweepStat(f) ==
    /\ Alive
    /\ sweepPhase[f] = "stat"
    /\ \/ /\ cache[f] # NoEntry
          /\ sweepPhase' = [sweepPhase EXCEPT ![f] =
                 IF IsOld(now - cache[f][1].mtimeMs, config.cacheCleanupAgeMs)
                   THEN "unlink" ELSE "done"]
       \/ sweepPhase' = [sweepPhase EXCEPT ![f] = "failed"]
    /\ UNCHANGED <<taskVars, cache, config, mainPc, exitCode, args, sweeps,
                   urlsFromSitemap>>
    /\ UNCHANGED notMainVars

\* lines 239-240: the unlink of one file settles
SweepUnlink(f) ==
    /\ Alive
    /\ sweepPhase[f] = "unlink"
    /\ \/ /\ cache[f] # NoEntry
          /\ cache' = [cache EXCEPT ![f] = NoEntry]
          /\ sweepPhase' = [sweepPhase EXCEPT ![f] = "done"]
       \/ /\ sweepPhase' = [sweepPhase EXCEPT ![f] = "failed"]
          /\ UNCHANGED cache
    /\ UNCHANGED <<taskVars, config, mainPc, exitCode, args, sweeps,
                   urlsFromSitemap>>
    /\ UNCHANGED notMainVars

\* lines 234-246: Promise.all settles (every callback done, or the first one
\* that failed) and cleanOldCache returns
SweepReturns ==
    /\ mainPc = "sweeping"
    /\ \/ \A f \in DOMAIN sweepPhase : sweepPhase[f] \in {"none", "done"}
       \/ \E f \in DOMAIN sweepPhase : sweepPhase[f] = "failed"
    /\ mainPc' = "runDir"
    /\ UNCHANGED <<taskVars, cache, config, exitCode, mainVars>>
    /\ UNCHANGED notMainVars

\* lines 377-391: createRunSubdirectory, then the three limiters are built
CreateRunDir ==
    /\ mainPc = "runDir"
    /\ \/ mainPc' = "resolving" /\ UNCHANGED exitCode
       \/ MainRejects
    /\ UNCHANGED <<taskVars, cache, config, mainVars>>
    /\ UNCHANGED notMainVars

\* (variant: only the unfiltered list is tested for emptiness)
NoTargetsBeforeFilter(urls) == urls = <<>>
\* lines 398-401 and 410-413: `urlsFromSitemap.length === 0` and
\* `targetUrls.length === 0`
NoTargets(urls) == urls = <<>> \/ Filter(urls) = <<>>

\* lines 393-426: fetchSitemapUrls returns; no URL, or none left by the
\* filter, ends the run with 1; otherwise one task per target is handed to
\* screenshotLimiter
Discover ==
    /\ mainPc = "resolving"
    /\ \E urls \in DiscoveryResults :
         /\ urlsFromSitemap' = urls
         /\ IF NoTargets(urls)
              THEN /\ MainExits(1)
                   /\ UNCHANGED taskVars
              ELSE /\ targetUrls' = Filter(urls)
                   /\ pc' = [t \in DOMAIN Filter(urls) |-> "queued"]
                   /\ prodShot' = [t \in DOMAIN Filter(urls) |-> Null]
                   /\ hadChanges' = [t \in DOMAIN Filter(urls) |-> FALSE]
                   /\ outcome' = [t \in DOMAIN Filter(urls) |-> {}]
                   /\ mainPc' = "awaitingTasks"
                   /\ UNCHANGED <<fileIoQueue, cmpQueue, processed, withChanges,
                                  errorCount, failedUrls, exitCode>>
    /\ UNCHANGED <<cache, config, args, sweeps, sweepPhase>>
    /\ UNCHANGED notMainVars

MainNext ==
    \/ ReadConfig
    \/ PrepareOutput
    \/ SweepReadsDir
    \/ \E f \in DOMAIN cache : SweepStat(f)
    \/ \E f \in DOMAIN cache : SweepUnlink(f)
    \/ SweepReturns
    \/ CreateRunDir
    \/ Discover
    \/ \E t \in TargetIds : StartTask(t)
    \/ \E t \in TargetIds : LookupSettles(t)
    \/ \E t \in TargetIds : ProdCaptureSettles(t)
    \/ \E t \in TargetIds : CacheWriteSettles(t)
    \/ \E t \in TargetIds : PreviewCaptureSettles(t)
    \/ \E t \in TargetIds : SaveStarts(t)
    \/ \E t \in TargetIds : SaveSettles(t)
    \/ \E t \in TargetIds : CompareStarts(t)
    \/ \E t \in TargetIds : CompareSettles(t)
    \/ \E t \in TargetIds : DiffSettles(t)
    \/ \E t \in TargetIds : TaskCompletes(t)
    \/ MainReturns

(***************************************************************************)
(* withRetry                                                               *)
(***************************************************************************)
DEFAULT_RETRIES == 2
DEFAULT_RETRY_DELAY_MS == 1000
DEFAULT_MAX_RETRY_DELAY_MS == 10000
DEFAULT_RETRY_BACKOFF_MULTIPLIER == 2

\* Bounds of the retry inputs
MaxRetriesOpt == 3

RetriesOpts == {Unset} \cup { Some(n) : n \in -1 .. MaxRetriesOpt }
RetryDelayOpts == {Some(3), Some(10)}
MaxRetryDelayOpts == {Unset, Some(15)}
BackoffOpts == {Unset, Some(1)}
JitterOpts == {Unset, Some(FALSE)}

RetryOptionSets ==
    [retries : RetriesOpts, retryDelayMs : RetryDelayOpts,
     maxRetryDelayMs : MaxRetryDelayOpts, backoffMultiplier : BackoffOpts,
     jitter : JitterOpts]

\* lines 102-115: the effective options
retries(o) == Max(0, OrDefault(o.retries, DEFAULT_RETRIES))
retryDelayMs(o) == Max(1, OrDefault(o.retryDelayMs, DEFAULT_RETRY_DELAY_MS))
maxRetryDelayMs(o) ==
    Max(retryDelayMs(o), OrDefault(o.maxRetryDelayMs, DEFAULT_MAX_RETRY_DELAY_MS))
backoffMultiplier(o) ==
    Max(1, OrDefault(o.backoffMultiplier, DEFAULT_RETRY_BACKOFF_MULTIPLIER))
jitter(o) == OrDefault(o.jitter, TRUE)

\* (variant: the delay is not capped)
uncappedDelay(o, att) == retryDelayMs(o) * Pow(backoffMultiplier(o), att - 1)
\* lines 129-132 (all quantities are integers here, Math.round is the identity)
baseDelay(o, att) ==
    Min(maxRetryDelayMs(o), retryDelayMs(o) * Pow(backoffMultiplier(o), att - 1))

\* lines 133-135: Math.max(1, Math.round(baseDelay * (0.8 + Math.random() * 0.4)))
\* with Math.random() in [0, 1): every integer the rounding can produce
JitterDelays(b) ==
    { Max(1, d) : d \in ((8 * b + 5) \div 10) .. ((12 * b + 4) \div 10) }

delayChoices(o, att) ==
    IF jitter(o) THEN JitterDelays(baseDelay(o, att)) ELSE {baseDelay(o, att)}

\* The outcome of the i-th invocation of operation(): its own value or error
OpValue(i) == <<"value", i>>
OpError(i) == <<"error", i>>

\* (variant: the last retry is not made)
GivesUpOneEarly(o, att) == att >= retries(o)
\* line 125: `if (attempt > retries)`
GivesUp(o, att) == att > retries(o)

\* (variant: the error is wrapped in a new one)
WrappedError(err) == <<"wrapped", err>>
\* line 126: `throw error`, the error caught in this iteration
Rethrown(err) == err

RetryIdle ==
    /\ rOpts = [retries |-> Unset, retryDelayMs |-> Unset, maxRetryDelayMs |-> Unset,
                backoffMultiplier |-> Unset, jitter |-> Unset]
    /\ failsFirst = 0
    /\ rPc = "returned"
    /\ attempt = 0
    /\ calls = 0
    /\ rResult = NoValue
    /\ rThrown = NoValue
    /\ delayMs = 0

RetryInit ==
    /\ rOpts \in RetryOptionSets
    /\ failsFirst \in 0 .. (MaxRetriesOpt + 1)
    /\ rPc = "calling"
    /\ attempt = 0
    /\ calls = 0
    /\ rResult = NoValue
    /\ rThrown = NoValue
    /\ delayMs = 0

\* line 121: operation() resolves, withRetry returns its value
OperationSucceeds ==
    /\ rPc = "calling"
    /\ calls + 1 > failsFirst
    /\ calls' = calls + 1
    /\ rResult' = OpValue(calls + 1)
    /\ rPc' = "returned"
    /\ UNCHANGED <<rOpts, attempt, rThrown, delayMs, failsFirst>>
    /\ UNCHANGED notRetryVars

\* lines 122-143: operation() rejects
OperationFails ==
    /\ rPc = "calling"
    /\ calls + 1 <= failsFirst
    /\ calls' = calls + 1
    /\ attempt' = attempt + 1
    /\ IF GivesUp(rOpts, attempt + 1)
         THEN /\ rPc' = "threw"
              /\ rThrown' = Rethrown(OpError(calls + 1))
              /\ UNCHANGED delayMs
         ELSE /\ rPc' = "sleeping"
              /\ delayMs' \in delayChoices(rOpts, attempt + 1)
              /\ UNCHANGED rThrown
    /\ UNCHANGED <<rOpts, rResult, failsFirst>>
    /\ UNCHANGED notRetryVars

\* line 143: the sleep ends, the loop runs again
SleepEnds ==
    /\ rPc = "sleeping"
    /\ rPc' = "calling"
    /\ UNCHANGED <<rOpts, attempt, calls, rResult, rThrown, delayMs, failsFirst>>
    /\ UNCHANGED notRetryVars

RetryNext == OperationSucceeds \/ OperationFails \/ SleepEnds

(***************************************************************************)
(* The branch-compare script (src/unnamed/part_000)                        *)
(***************************************************************************)
Branches == {"main", "feature", "other"}
\* where HEAD can be: on a branch, or detached on a commit of no branch
Heads == Branches \cup {"detached"}

\* lines 75-77 getCurrentBranch: `git rev-parse --abbrev-ref HEAD` prints the
\* name of the branch, and the word HEAD when HEAD is detached
getCurrentBranch(head) == IF head = "detached" THEN "HEAD" ELSE head
\* line 81: `git checkout <name>` moves HEAD to the branch; `git checkout HEAD`
\* leaves HEAD where it is
checkout(head, name) == IF name = "HEAD" THEN head ELSE name

\* the command lines: parseArgs accepts them or not, --help, the url and
\* branch_name positionals, --retries
BranchArgSets ==
    [parses : BOOLEAN, help : BOOLEAN, url : BOOLEAN,
     branchName : {Unset, Some("main"), Some("feature")},
     retries : {Unset, Some(0), Some(2)}]

\* one thing main did to the repository or the page: a git checkout, a
\* capture, a comparison, a diff image, and what it was done for
Event(op, branch, why) == [op |-> op, branch |-> branch, why |-> why]

BranchIdle ==
    /\ brArgs = NoValue
    /\ gitHead = "main"
    /\ treeClean = TRUE
    /\ screenshotFile = NoValue
    /\ originalBranch = Null
    /\ brPc = "returned"
    /\ brExit = NoValue
    /\ brEvents = <<>>

\* the script is started in a repository on some branch, clean or not, with or
\* without a screenshot of an earlier run
BranchInit ==
    /\ brArgs \in BranchArgSets
    /\ gitHead \in Heads
    /\ treeClean \in BOOLEAN
    /\ screenshotFile \in {NoValue, Some("old")}
    /\ originalBranch = Null
    /\ brPc = "start"
    /\ brExit = NoValue
    /\ brEvents = <<>>

BranchReturns(code) ==
    /\ brExit' = Some(code)
    /\ brPc' = "returned"

\* (variant: an error of the baseline side is swallowed and main goes on)
BaselineErrorSkipped(at) == IF at = "baseline" THEN "switchToTarget" ELSE "finally"
\* lines 212-214: an exception of the try block, wherever it is raised, is
\* caught by the catch of main
CatchOfMain(at) == "finally"

\* lines 212-215: the catch of main: `return 1`, then the finally block
TryBlockThrows(at) ==
    /\ brPc' = CatchOfMain(at)
    /\ brExit' = IF CatchOfMain(at) = "finally" THEN Some(1) ELSE brExit

\* lines 132-183: parseArgs, --help, the positionals, the options
BranchParseArgs ==
    /\ brPc = "start"
    /\ IF ~brArgs.parses THEN BranchReturns(1)
       ELSE IF brArgs.help THEN BranchReturns(0)
       ELSE IF ~brArgs.url \/ brArgs.branchName = Unset THEN BranchReturns(1)
       ELSE IF parsePositiveInt(brArgs.retries).throws THEN BranchReturns(1)
       ELSE brPc' = "prepare" /\ UNCHANGED brExit
    /\ UNCHANGED <<brArgs, gitHead, treeClean, screenshotFile, originalBranch,
                   brEvents>>
    /\ UNCHANGED notBranchVars

\* lines 185-191: ensureDirectoriesExist and createRunSubdirectory, outside the
\* try: an error rejects main
BranchPrepare ==
    /\ brPc = "prepare"
    /\ \/ brPc' = "try"
       \/ brPc' = "threw"
    /\ UNCHANGED <<brArgs, gitHead, treeClean, screenshotFile, originalBranch,
                   brExit, brEvents>>
    /\ UNCHANGED notBranchVars

\* (variant: the state of the working tree is not looked at)
TreeNotChecked(clean) == FALSE
\* lines 66-73 assertCleanWorkingTree: throws when `git status --porcelain`
\* prints anything
assertCleanWorkingTreeThrows(clean) == ~clean

\* lines 195-199 and 79-87: assertCleanWorkingTree, getCurrentBranch and the
\* checkout of main
BranchEnterTry ==
    /\ brPc = "try"
    /\ \/ /\ assertCleanWorkingTreeThrows(treeClean)
          /\ TryBlockThrows("clean")
          /\ UNCHANGED <<originalBranch, gitHead, brEvents>>
       \/ /\ ~assertCleanWorkingTreeThrows(treeClean)
          /\ originalBranch' = Some(getCurrentBranch(gitHead))
          /\ \/ /\ gitHead' = checkout(gitHead, "main")
                /\ brEvents' = Append(brEvents, Event("checkout", "main", "baseline"))
                /\ brPc' = "baseline"
                /\ UNCHANGED brExit
             \/ /\ TryBlockThrows("checkoutMain")
                /\ UNCHANGED <<gitHead, brEvents>>
    /\ UNCHANGED <<brArgs, treeClean, screenshotFile>>
    /\ UNCHANGED notBranchVars

\* lines 200 and 89-127 with isBaseline: the capture on main settles; the
\* screenshot is written over the file
BaselineCaptureSettles ==
    /\ brPc = "baseline"
    /\ \/ /\ brEvents' = Append(brEvents, Event("capture", gitHead, "baseline"))
          /\ \/ /\ screenshotFile' = Some("baseline")
                /\ brPc' = "switchToTarget"
                /\ UNCHANGED brExit
             \/ /\ TryBlockThrows("baseline")
                /\ UNCHANGED screenshotFile
       \/ /\ brEvents' = Append(brEvents, Event("captureFailed", gitHead, "baseline"))
          /\ TryBlockThrows("baseline")
          /\ UNCHANGED screenshotFile
    /\ UNCHANGED <<brArgs, gitHead, treeClean, originalBranch>>
    /\ UNCHANGED notBranchVars

\* lines 202 and 79-87: switchBranch(branchName)
SwitchToTarget ==
    /\ brPc = "switchToTarget"
    /\ \/ /\ gitHead' = checkout(gitHead, brArgs.branchName[1])
          /\ brEvents' = Append(brEvents,
                                Event("checkout", brArgs.branchName[1], "comparison"))
          /\ brPc' = "comparison"
          /\ UNCHANGED brExit
       \/ /\ TryBlockThrows("checkoutTarget")
          /\ UNCHANGED <<gitHead, brEvents>>
    /\ UNCHANGED <<brArgs, treeClean, screenshotFile, originalBranch>>
    /\ UNCHANGED notBranchVars

\* lines 203 and 97-123: the capture on the target branch settles; with a
\* stored screenshot the comparison is started, without one the new screenshot
\* is written and main returns 0
ComparisonCaptureSettles ==
    /\ brPc = "comparison"
    /\ \/ /\ brEvents' = Append(brEvents, Event("capture", gitHead, "comparison"))
          /\ IF screenshotFile # NoValue
             THEN brPc' = "comparing" /\ UNCHANGED <<brExit, screenshotFile>>
             ELSE \/ /\ screenshotFile' = Some("new")
                     /\ brExit' = Some(0) /\ brPc' = "finally"
                  \/ /\ TryBlockThrows("comparison")
                     /\ UNCHANGED screenshotFile
       \/ /\ brEvents' = Append(brEvents, Event("captureFailed", gitHead, "comparison"))
          /\ TryBlockThrows("comparison")
          /\ UNCHANGED screenshotFile
    /\ UNCHANGED <<brArgs, gitHead, treeClean, originalBranch>>
    /\ UNCHANGED notBranchVars

\* lines 99-118 and 126: compareScreenshots settles: no differing pixel (the
\* new screenshot is written, return 0), differing pixels (the diff image is
\* started), or an error
BranchCompareSettles ==
    /\ brPc = "comparing"
    /\ \/ /\ brEvents' = Append(brEvents, Event("compare", gitHead, "comparison"))
          /\ \/ /\ screenshotFile' = Some("new")
                /\ brExit' = Some(0) /\ brPc' = "finally"
             \/ /\ brPc' = "diffing"
                /\ UNCHANGED <<brExit, screenshotFile>>
             \/ /\ TryBlockThrows("comparison")
                /\ UNCHANGED screenshotFile
       \/ /\ TryBlockThrows("comparison")
          /\ UNCHANGED <<screenshotFile, brEvents>>
    /\ UNCHANGED <<brArgs, gitHead, treeClean, originalBranch>>
    /\ UNCHANGED notBranchVars

\* lines 110-115 and 126: createDiffImageWithPath settles, the new screenshot
\* is written, return 0
BranchDiffSettles ==
    /\ brPc = "diffing"
    /\ \/ /\ brEvents' = Append(brEvents, Event("diff", gitHead, "comparison"))
          /\ \/ /\ screenshotFile' = Some("new")
                /\ brExit' = Some(0) /\ brPc' = "finally"
             \/ /\ TryBlockThrows("comparison")
                /\ UNCHANGED screenshotFile
       \/ /\ TryBlockThrows("comparison")
          /\ UNCHANGED <<screenshotFile, brEvents>>
    /\ UNCHANGED <<brArgs, gitHead, treeClean, originalBranch>>
    /\ UNCHANGED notBranchVars

\* lines 215-227: the finally block: when originalBranch was read and
\* getCurrentBranch now prints another name, originalBranch is checked out; a
\* failure of git here is only printed
BranchFinally ==
    /\ brPc = "finally"
    /\ \/ /\ IF originalBranch = Null THEN TRUE
             ELSE getCurrentBranch(gitHead) = originalBranch[1]
          /\ UNCHANGED <<gitHead, brEvents>>
       \/ /\ originalBranch # Null /\ getCurrentBranch(gitHead) # originalBranch[1]
          /\ gitHead' = checkout(gitHead, originalBranch[1])
          /\ brEvents' = Append(brEvents,
                                Event("checkout", originalBranch[1], "restore"))
       \/ /\ originalBranch # Null
          /\ brEvents' = Append(brEvents,
                                Event("gitFailed", originalBranch[1], "restore"))
          /\ UNCHANGED gitHead
    /\ brPc' = "returned"
    /\ UNCHANGED <<brArgs, treeClean, screenshotFile, originalBranch, brExit>>
    /\ UNCHANGED notBranchVars

BranchNext ==
    \/ BranchParseArgs
    \/ BranchPrepare
    \/ BranchEnterTry
    \/ BaselineCaptureSettles
    \/ SwitchToTarget
    \/ ComparisonCaptureSettles
    \/ BranchCompareSettles
    \/ BranchDiffSettles
    \/ BranchFinally

(***************************************************************************)
(* The preview URL of a target: normalizePreviewDomain and transformUrl    *)
(***************************************************************************)
\* A URL string is a sequence of pieces: the scheme with its "//", the host,
\* then "/" and path segments, a query and a fragment.
Schemes == {"https://"}
UrlHosts == {"prod.com", "PROD.com", "pv.app"}
LowerHost(h) == IF h = "PROD.com" THEN "prod.com" ELSE h

\* new URL(s): a string without a scheme is rejected; the host is lower-cased
\* and an empty path becomes "/"
UrlParses(s) == Len(s) >= 2 /\ s[1] \in Schemes /\ s[2] \in UrlHosts
UrlOrigin(s) == <<s[1], LowerHost(s[2])>>
UrlRest(s) ==
    LET rest == SubSeq(s, 3, Len(s))
    IN  IF rest # <<>> /\ rest[1] = "/" THEN rest ELSE <<"/">> \o rest
\* URL.prototype.toString
UrlToString(s) == UrlOrigin(s) \o UrlRest(s)

\* String.prototype.replace(pattern, replacement) with a string pattern: the
\* first occurrence is replaced, a string without one is returned as it is
Occurrences(s, pat) ==
    { i \in 1 .. Len(s) - Len(pat) + 1 : SubSeq(s, i, i + Len(pat) - 1) = pat }
ReplaceFirst(s, pat, new) ==
    IF Occurrences(s, pat) = {} THEN s
    ELSE LET i == CHOOSE k \in Occurrences(s, pat) :
                      \A j \in Occurrences(s, pat) : k <= j
         IN  SubSeq(s, 1, i - 1) \o new \o SubSeq(s, i + Len(pat), Len(s))

\* compare-prod-and-preview.ts lines 105-117
normalizePreviewDomain(previewDomain) ==
    IF previewDomain = NoValue \/ previewDomain = Some(<<>>) THEN Null
    ELSE IF UrlParses(previewDomain[1]) THEN Some(UrlToString(previewDomain[1]))
    ELSE Some(<<"https://">> \o previewDomain[1])

\* visual-testing-utils.ts lines 567-580
transformUrl(originalUrl, newBaseDomain) ==
    IF newBaseDomain = Null THEN originalUrl
    ELSE IF ~UrlParses(originalUrl) THEN originalUrl
    ELSE ReplaceFirst(originalUrl, UrlOrigin(originalUrl), newBaseDomain[1])

\* the production URLs of the targets and the preview domains of the command
\* line: none, a bare host, a full URL without and with a trailing slash
ProdPaths ==
    {<<>>, <<"/">>, <<"/", "a">>, <<"/", "a", "/">>, <<"/", "a", "/", "b">>}
ProdUrlStrings ==
    { <<"https://", h>> \o p \o q \o f :
        h \in {"prod.com", "PROD.com"}, p \in ProdPaths,
        q \in {<<>>, <<"?q=1">>}, f \in {<<>>, <<"#top">>} }
PreviewArgs ==
    {NoValue, Some(<<"pv.app">>), Some(<<"https://", "pv.app">>),
     Some(<<"https://", "pv.app", "/">>)}

TransformIdle ==
    /\ prodUrl = <<>>
    /\ previewArg = NoValue
    /\ previewUrl = NoValue

TransformInit ==
    /\ prodUrl \in ProdUrlStrings
    /\ previewArg \in PreviewArgs
    /\ previewUrl = NoValue

\* compare-prod-and-preview.ts line 177 and lines 269-270: the preview URL of
\* the target is built from the normalised preview domain
BuildPreviewUrl ==
    /\ previewUrl = NoValue
    /\ previewUrl' = Some(transformUrl(prodUrl, normalizePreviewDomain(previewArg)))
    /\ UNCHANGED <<prodUrl, previewArg, lnVars>>
    /\ UNCHANGED <<retryVars, cacheVars, smVars, plVars, mainVars, repVars, brVars>>

TransformNext == BuildPreviewUrl

\* the launcher does not run
LauncherIdle ==
    /\ flags = NoValue
    /\ selectedVisibleTask = NoValue
    /\ history = <<>>
    /\ taskHistoryValues = <<>>
    /\ enteredValues = <<>>
    /\ mergedValues = NoValue
    /\ taskArgs = NoValue
    /\ historyFile = NoValue
    /\ lnPc = "returned"
    /\ lnExit = NoValue
    /\ lnEvents = <<>>

(***************************************************************************)
(* The task launcher: values, fields and the functions of                  *)
(* task-launcher-core.ts (src/unnamed/part_003)                            *)
(***************************************************************************)
\* JavaScript values, tagged by kind. A string is a sequence of pieces
\* (characters, or words that are never split).
Undefined == <<>>
Str(s) == <<"string", s>>
Num(n) == <<"number", n>>
NaN == <<"NaN">>
Bool(b) == <<"boolean", b>>
JsNull == <<"null">>
JsObject == <<"object">>

\* typeof
typeOf(v) ==
    IF v = Undefined THEN "undefined"
    ELSE IF v[1] \in {"NaN", "Infinity"} THEN "number"
    ELSE IF v[1] \in {"string", "number", "boolean"} THEN v[1]
    ELSE "object"

\* (variant: only strings count)
isStringValue(value) == typeOf(value) = "string"
\* part_003 lines 160-162
isPrimitiveValue(value) == typeOf(value) \in {"string", "number", "boolean"}

DigitChars == <<"0", "1", "2", "3", "4", "5", "6", "7", "8", "9">>
Digits == { DigitChars[i] : i \in 1 .. 10 }
DigitValue(c) == CHOOSE d \in 0 .. 9 : DigitChars[d + 1] = c

\* Number.prototype.toString of an integer
RECURSIVE DecimalDigits(_)
DecimalDigits(n) ==
    IF n < 10 THEN <<DigitChars[n + 1]>>
    ELSE DecimalDigits(n \div 10) \o <<DigitChars[(n % 10) + 1]>>
DecimalString(n) == IF n < 0 THEN <<"-">> \o DecimalDigits(-n) ELSE DecimalDigits(n)

\* the template literal `${value}`
TemplateString(v) ==
    IF v = Undefined THEN <<"undefined">>
    ELSE IF v[1] = "string" THEN v[2]
    ELSE IF v[1] = "number" THEN DecimalString(v[2])
    ELSE IF v[1] = "NaN" THEN <<"NaN">>
    ELSE IF v[1] = "boolean" THEN (IF v[2] THEN <<"true">> ELSE <<"false">>)
    ELSE IF v[1] = "null" THEN <<"null">>
    ELSE <<"[object Object]">>

\* String.prototype.trim
trim(s) ==
    LET kept == { i \in 1 .. Len(s) : s[i] # " " }
    IN  IF kept = {} THEN <<>>
        ELSE SubSeq(s, CHOOSE i \in kept : \A j \in kept : i <= j,
                       CHOOSE i \in kept : \A j \in kept : j <= i)

\* Number.parseInt(s, 10) of a trimmed string: an optional sign and the longest
\* run of digits that follows; NaN when there is no digit
RECURSIVE DigitsValue(_)
DigitsValue(ds) ==
    IF ds = <<>> THEN 0
    ELSE 10 * DigitsValue(SubSeq(ds, 1, Len(ds) - 1)) + DigitValue(ds[Len(ds)])
parseInt(s) ==
    LET signed == s # <<>> /\ s[1] \in {"-", "+"}
        body == IF signed THEN Tail(s) ELSE s
        run == { k \in 0 .. Len(body) : \A i \in 1 .. k : body[i] \in Digits }
        len == CHOOSE k \in run : \A j \in run : j <= k
        magnitude == DigitsValue(SubSeq(body, 1, len))
    IN  IF len = 0 THEN NaN
        ELSE IF signed /\ s[1] = "-" THEN Num(0 - magnitude)
        ELSE Num(magnitude)

\* TaskFieldDefinition, as validateField, getPositionalFields, buildCommandArgs
\* and mergeTaskValues read it
Field(key, type, required, positional, flag, defaultValue, advanced) ==
    [key |-> key, label |-> key, type |-> type, required |-> required,
     positional |-> positional, flag |-> flag, defaultValue |-> defaultValue,
     advanced |-> advanced]
Task(id, advanced, fields) == [id |-> id, advanced |-> advanced, fields |-> fields]

\* a TaskValueMap or a history record: values[key] and Object.hasOwn
hasOwn(values, key) == key \in DOMAIN values
Get(values, key) == IF key \in DOMAIN values THEN values[key] ELSE Undefined
Put(values, key, value) ==
    [k \in DOMAIN values \cup {key} |-> IF k = key THEN value ELSE values[k]]
Delete(values, key) == [k \in DOMAIN values \ {key} |-> values[k]]
EmptyMap == <<>>

Valid(normalizedValue) ==
    [valid |-> TRUE, normalizedValue |-> normalizedValue, error |-> <<>>]
Invalid(label, what) ==
    [valid |-> FALSE, normalizedValue |-> Undefined, error |-> <<label, what>>]

\* part_003 lines 175-242
validateField(field, value) ==
    IF value = Undefined \/ value = JsNull \/ value = Str(<<>>)
      THEN IF field.required THEN Invalid(field.label, "is required.")
           ELSE Valid(Undefined)
    ELSE IF field.type = "boolean"
      THEN IF typeOf(value) # "boolean" THEN Invalid(field.label, "must be true/false.")
           ELSE Valid(value)
    ELSE LET stringValue ==
                 IF typeOf(value) = "string" THEN trim(value[2]) ELSE TemplateString(value)
         IN  IF stringValue = <<>>
               THEN IF field.required THEN Invalid(field.label, "is required.")
                    ELSE Valid(Undefined)
             ELSE IF field.type = "string" THEN Valid(Str(stringValue))
             ELSE IF field.type = "url"
               THEN IF UrlParses(stringValue) THEN Valid(Str(UrlToString(stringValue)))
                    ELSE Invalid(field.label, "must be a valid absolute URL.")
             ELSE IF field.type = "int"
               THEN LET parsed == parseInt(stringValue)
                    IN  IF parsed = NaN
                          THEN Invalid(field.label, "must be a positive integer.")
                        ELSE IF parsed[2] <= 0
                          THEN Invalid(field.label, "must be a positive integer.")
                        ELSE Valid(parsed)
             ELSE Invalid(field.label, "Unsupported field type")

\* the outcome of a call: the value returned, or the Error thrown
ReturnedValue(value) == [kind |-> "returned", value |-> value]
ThrownError(message) == [kind |-> "threw", value |-> message]

\* Array.prototype.sort with the comparator of getPositionalFields: stable,
\* ascending in `positional`
RECURSIVE InsertByPositional(_, _)
InsertByPositional(sorted, field) ==
    IF sorted = <<>> THEN <<field>>
    ELSE IF field.positional[1] < Head(sorted).positional[1]
      THEN <<field>> \o sorted
    ELSE <<Head(sorted)>> \o InsertByPositional(Tail(sorted), field)
RECURSIVE SortByPositional(_)
SortByPositional(fields) ==
    IF fields = <<>> THEN <<>>
    ELSE InsertByPositional(SortByPositional(SubSeq(fields, 1, Len(fields) - 1)),
                            fields[Len(fields)])

IsPositional(field) == field.positional # NoValue
\* (variant: the positional fields are taken in manifest order)
PositionalInManifestOrder(task) == SelectSeq(task.fields, IsPositional)
\* part_003 lines 244-248
getPositionalFields(task) == SortByPositional(SelectSeq(task.fields, IsPositional))

\* part_003 lines 256-266: the loop over the positional fields
RECURSIVE PositionalArgs(_, _)
PositionalArgs(fields, values) ==
    IF fields = <<>> THEN ReturnedValue(<<>>)
    ELSE LET validation == validateField(Head(fields), Get(values, Head(fields).key))
             rest == PositionalArgs(Tail(fields), values)
         IN  IF ~validation.valid THEN ThrownError(validation.error)
             ELSE IF rest.kind = "threw" THEN rest
             ELSE IF validation.normalizedValue # Undefined
               THEN ReturnedValue(<<TemplateString(validation.normalizedValue)>> \o rest.value)
             ELSE rest

\* part_003 lines 268-293: the loop over the fields that have a flag
RECURSIVE FlagArgs(_, _)
FlagArgs(fields, values) ==
    IF fields = <<>> THEN ReturnedValue(<<>>)
    ELSE IF Head(fields).flag = <<>> THEN FlagArgs(Tail(fields), values)
    ELSE LET field == Head(fields)
             validation == validateField(field, Get(values, field.key))
             rest == FlagArgs(Tail(fields), values)
         IN  IF ~validation.valid THEN ThrownError(validation.error)
             ELSE IF rest.kind = "threw" THEN rest
             ELSE IF field.type = "boolean"
               THEN IF validation.normalizedValue = Bool(TRUE)
                      THEN ReturnedValue(<<<<"--">> \o field.flag>> \o rest.value)
                    ELSE rest
             ELSE IF validation.normalizedValue # Undefined
               THEN ReturnedValue(<<<<"--">> \o field.flag,
                               TemplateString(validation.normalizedValue)>> \o rest.value)
             ELSE rest

\* part_003 lines 250-296
buildCommandArgs(task, values) ==
    LET positionals == PositionalArgs(getPositionalFields(task), values)
        flagged == FlagArgs(task.fields, values)
    IN  IF positionals.kind = "threw" THEN positionals
        ELSE IF flagged.kind = "threw" THEN flagged
        ELSE ReturnedValue(<<<<task.id>>>> \o positionals.value \o flagged.value)

\* (variant: the history value wins over the current input)
MergeHistoryLast(merged, field, historyValues, currentValues) ==
    LET withDefault ==
            IF field.defaultValue # Undefined
              THEN Put(merged, field.key, field.defaultValue) ELSE merged
        withCurrent ==
            IF hasOwn(currentValues, field.key)
              THEN Put(withDefault, field.key, currentValues[field.key])
            ELSE withDefault
    IN  IF isPrimitiveValue(Get(historyValues, field.key))
          THEN Put(withCurrent, field.key, historyValues[field.key])
        ELSE withCurrent
\* part_003 lines 305-318: the body of the loop of mergeTaskValues, for one field
MergeField(merged, field, historyValues, currentValues) ==
    LET withDefault ==
            IF field.defaultValue # Undefined
              THEN Put(merged, field.key, field.defaultValue) ELSE merged
        withHistory ==
            IF isPrimitiveValue(Get(historyValues, field.key))
              THEN Put(withDefault, field.key, historyValues[field.key])
            ELSE withDefault
    IN  IF hasOwn(currentValues, field.key)
          THEN Put(withHistory, field.key, currentValues[field.key])
        ELSE withHistory

RECURSIVE MergeFields(_, _, _, _)
MergeFields(merged, fields, historyValues, currentValues) ==
    IF fields = <<>> THEN merged
    ELSE MergeFields(MergeField(merged, Head(fields), historyValues, currentValues),
                     Tail(fields), historyValues, currentValues)
\* part_003 lines 298-321
mergeTaskValues(task, historyValues, currentValues) ==
    MergeFields(EmptyMap, task.fields, historyValues, currentValues)

\* The tasks of the manifest that the tests of task-launcher-core exercise,
\* with the fields the tests name, and the advanced task `check` of the README
UrlField(key, positional) ==
    Field(key, "url", TRUE, Some(positional), <<>>, Undefined, FALSE)
CompareBranchesTask ==
    Task("compare:branches", FALSE,
         <<UrlField("url", 0),
           Field("branchName", "string", TRUE, Some(1), <<>>, Undefined, FALSE)>>)
SitemapOpenTask ==
    Task("sitemap:open", FALSE,
         <<UrlField("sitemapUrl", 0),
           Field("maxUrls", "int", FALSE, NoValue, <<"max-urls">>, Undefined, FALSE),
           Field("yes", "boolean", FALSE, NoValue, <<"yes">>, Bool(FALSE), TRUE)>>)
CompareProdPreviewTask ==
    Task("compare:prod-preview", FALSE,
         <<UrlField("sitemapUrl", 0),
           Field("noCache", "boolean", FALSE, NoValue, <<"no-cache">>, Bool(FALSE), FALSE),
           Field("runName", "string", FALSE, NoValue, <<"run-name">>, Undefined, FALSE)>>)
CheckTask == Task("check", TRUE, <<>>)
TASK_MANIFEST ==
    <<CompareProdPreviewTask, CompareBranchesTask, SitemapOpenTask, CheckTask>>
\* a task whose fields are declared out of positional order
OutOfOrderTask ==
    Task("out-of-order", FALSE,
         <<Field("runName", "string", FALSE, NoValue, <<"run-name">>, Undefined, FALSE),
           Field("branchName", "string", TRUE, Some(1), <<>>, Undefined, FALSE),
           UrlField("url", 0)>>)
CoreTasks == {CompareProdPreviewTask, CompareBranchesTask, SitemapOpenTask, OutOfOrderTask}

FieldKeys(task) == { task.fields[i].key : i \in DOMAIN task.fields }
UnknownKey == "unknownField"
\* the objects whose keys are among `keys` and whose values are in `pool`
MapsOver(keys, pool) == UNION { [D -> pool] : D \in SUBSET keys }

\* values a caller may pass for a field: none, blank, well-formed and
\* malformed ones of every type
WideValues ==
    {Undefined, JsNull, Str(<<>>), Str(<<" ">>),
     Str(<<"https://", "pv.app">>), Str(<<"pv.app">>),
     Str(<<" ", "main", " ">>),
     Str(<<"1", "0">>), Str(<<"0">>), Str(<<"-", "5">>), Str(<<"1", "0", "a">>),
     Num(20), Num(0), NaN, Bool(TRUE), Bool(FALSE)}
HistoryValues == {Str(<<"old">>), Bool(TRUE), JsNull, JsObject}
CurrentValues == {Undefined, Str(<<"new">>), Bool(FALSE)}

\* mergeTaskValues, then buildCommandArgs, on a task, a history record and a
\* current input
MergeInit ==
    /\ flags = NoValue
    /\ \E task \in CoreTasks :
        /\ selectedVisibleTask = Some(task)
        /\ taskHistoryValues \in MapsOver(FieldKeys(task) \cup {UnknownKey}, HistoryValues)
        /\ enteredValues \in MapsOver(FieldKeys(task), CurrentValues)
    /\ history = <<>>
    /\ mergedValues = NoValue
    /\ taskArgs = NoValue
    /\ historyFile = NoValue
    /\ lnPc = "returned"
    /\ lnExit = NoValue
    /\ lnEvents = <<>>

\* buildCommandArgs on a task and a value map
BuildInit ==
    /\ flags = NoValue
    /\ \E task \in CoreTasks :
        /\ selectedVisibleTask = Some(task)
        /\ \E values \in MapsOver(FieldKeys(task), WideValues) :
           \E extra \in {EmptyMap, [k \in {UnknownKey} |-> Str(<<"still-ignored">>)]} :
             mergedValues = Some([k \in DOMAIN values \cup DOMAIN extra |->
                                   IF k \in DOMAIN values THEN values[k] ELSE extra[k]])
    /\ taskHistoryValues = <<>>
    /\ enteredValues = <<>>
    /\ history = <<>>
    /\ taskArgs = NoValue
    /\ historyFile = NoValue
    /\ lnPc = "returned"
    /\ lnExit = NoValue
    /\ lnEvents = <<>>

\* the call mergeTaskValues(task, historyValues, currentValues)
MergeApplied ==
    /\ lnPc = "returned"
    /\ selectedVisibleTask # NoValue
    /\ mergedValues = NoValue
    /\ mergedValues' = Some(mergeTaskValues(selectedVisibleTask[1],
                                            taskHistoryValues, enteredValues))
    /\ UNCHANGED <<flags, selectedVisibleTask, history, taskHistoryValues,
                   enteredValues, taskArgs, historyFile, lnPc, lnExit, lnEvents>>
    /\ UNCHANGED notLauncherVars

\* the call buildCommandArgs(task, values)
BuildApplied ==
    /\ lnPc = "returned"
    /\ selectedVisibleTask # NoValue
    /\ mergedValues # NoValue
    /\ taskArgs = NoValue
    /\ taskArgs' = Some(buildCommandArgs(selectedVisibleTask[1], mergedValues[1]))
    /\ UNCHANGED <<flags, selectedVisibleTask, history, taskHistoryValues,
                   enteredValues, mergedValues, historyFile, lnPc, lnExit, lnEvents>>
    /\ UNCHANGED notLauncherVars

MergeNext == MergeApplied \/ BuildApplied
BuildNext == BuildApplied

(***************************************************************************)
(* The history file of the launcher: loadHistory and saveHistory           *)
(***************************************************************************)
\* a number that is not finite
Infinity == <<"Infinity">>

\* JSON text, as the tree of its syntax: an object of members, an array, a
\* string, a number literal or one of the literals true, false and null.
\* JSON.stringify of a value of a history: a number that is not finite is
\* written as null
JsonOfValue(v) ==
    IF v[1] = "string" THEN <<"str", v[2]>>
    ELSE IF v[1] = "number" THEN <<"num", DecimalString(v[2])>>
    ELSE IF v[1] = "boolean" THEN <<"lit", IF v[2] THEN "true" ELSE "false">>
    ELSE IF v[1] \in {"NaN", "Infinity", "null"} THEN <<"lit", "null">>
    ELSE <<"obj", EmptyMap>>
\* JSON.stringify(history, null, 2): members whose value is undefined are left out
JsonStringify(h) ==
    <<"obj",
      [taskId \in DOMAIN h |->
         <<"obj", [key \in { k \in DOMAIN h[taskId] : h[taskId][k] # Undefined } |->
                     JsonOfValue(h[taskId][key])]>>]>>

\* a number literal too large for a double
HugeLiteral == <<"1", "e", "9", "9", "9">>
\* JSON.parse of a member value
JsonValue(node) ==
    IF node[1] = "str" THEN Str(node[2])
    ELSE IF node[1] = "num"
      THEN (IF node[2] = HugeLiteral THEN Infinity ELSE parseInt(node[2]))
    ELSE IF node[1] = "lit"
      THEN (IF node[2] = "null" THEN JsNull ELSE Bool(node[2] = "true"))
    ELSE JsObject

Corrupt == <<"corrupt">>
\* part_003 lines 323-361: `file` is the content of the file (NoValue when
\* there is none) and readFails tells that readTextFile failed for another
\* reason; every error is caught
loadHistory(file, readFails) ==
    IF file = NoValue THEN EmptyMap
    ELSE IF readFails THEN EmptyMap
    ELSE IF file[1] = Corrupt THEN EmptyMap
    ELSE IF file[1][1] # "obj" THEN EmptyMap
    ELSE LET parsed == file[1][2]
             records == { t \in DOMAIN parsed : parsed[t][1] = "obj" }
         IN  [taskId \in records |->
                [key \in { k \in DOMAIN parsed[taskId][2] :
                             isPrimitiveValue(JsonValue(parsed[taskId][2][k])) } |->
                   JsonValue(parsed[taskId][2][key])]]

\* part_003 lines 363-372: the text saveHistory writes
saveHistory(h) == Some(JsonStringify(h))

\* the histories saved: records of strings, booleans and numbers per task
HistoryTaskIds == {"compare:url", "sitemap:open"}
HistoryKeys == {"url1", "runName"}
SavedValues == {Str(<<"sample">>), Num(0 - 5), Bool(TRUE), Infinity}
Histories == MapsOver(HistoryTaskIds, MapsOver(HistoryKeys, SavedValues))
\* what the file may hold before: nothing, text that is not JSON, JSON that is
\* not an object, an object with members of every kind
FileContents ==
    {NoValue, Some(Corrupt), Some(<<"arr">>), Some(<<"lit", "null">>),
     Some(<<"obj", [t \in HistoryTaskIds |->
                      IF t = "compare:url"
                        THEN <<"obj", [k \in HistoryKeys |->
                                         IF k = "url1" THEN <<"num", HugeLiteral>>
                                         ELSE <<"arr">>]>>
                      ELSE <<"arr">>]>>)}

\* events of the launcher
ReadEvent == <<"read">>
ReadFailedEvent == <<"readFailed">>
WriteEvent == <<"write">>
MaxHistoryOps == 2

HistoryInit ==
    /\ flags = NoValue
    /\ selectedVisibleTask = NoValue
    /\ history = <<>>
    /\ taskHistoryValues = <<>>
    /\ enteredValues = <<>>
    /\ mergedValues = NoValue
    /\ taskArgs = NoValue
    /\ historyFile \in FileContents
    /\ lnPc = "returned"
    /\ lnExit = NoValue
    /\ lnEvents = <<>>

\* a call of loadHistory(path)
LoadHistoryCall ==
    /\ lnPc = "returned"
    /\ selectedVisibleTask = NoValue
    /\ Len(lnEvents) < MaxHistoryOps
    /\ \E readFails \in BOOLEAN :
         /\ history' = loadHistory(historyFile, readFails)
         /\ lnEvents' = Append(lnEvents,
                               IF readFails THEN ReadFailedEvent ELSE ReadEvent)
    /\ UNCHANGED <<flags, selectedVisibleTask, taskHistoryValues, enteredValues,
                   mergedValues, taskArgs, historyFile, lnPc, lnExit>>
    /\ UNCHANGED notLauncherVars

\* a call of saveHistory(path, h) that returns; `history` is its argument
SaveHistoryCall ==
    /\ lnPc = "returned"
    /\ selectedVisibleTask = NoValue
    /\ Len(lnEvents) < MaxHistoryOps
    /\ \E h \in Histories :
         /\ history' = h
         /\ historyFile' = saveHistory(h)
         /\ lnEvents' = Append(lnEvents, WriteEvent)
    /\ UNCHANGED <<flags, selectedVisibleTask, taskHistoryValues,
                   enteredValues, mergedValues, taskArgs, lnPc, lnExit>>
    /\ UNCHANGED notLauncherVars

HistoryNext == LoadHistoryCall \/ SaveHistoryCall

(***************************************************************************)
(* main of the task launcher (task-launcher.ts)                            *)
(***************************************************************************)
\* lines 24-30 and 45-65: LauncherFlags, and whether parseArgs rejects the
\* command line (an option it does not know)
LauncherTaskFlags ==
    {NoValue, Some("sitemap:open"), Some("compare:prod-preview"), Some("check"),
     Some("nope")}
LauncherFlagSets ==
    [task : LauncherTaskFlags, advanced : BOOLEAN, dryRun : BOOLEAN,
     noHistory : BOOLEAN, help : BOOLEAN, unknownOption : BOOLEAN]

\* lines 67-77: shellQuoteArg and commandPreview
SafePieces == Digits \cup
    {"deno", "task", "sitemap:open", "compare:prod-preview", "compare:branches",
     "check", "https://", "pv.app", "/", "--", "max-urls", "yes", "no-cache",
     "run-name", "my", "run", "true", "false", "-"}
shellQuoteArg(arg) ==
    IF arg # <<>> /\ \A i \in DOMAIN arg : arg[i] \in SafePieces THEN arg
    ELSE <<"'">> \o arg \o <<"'">>
RECURSIVE JoinWithSpaces(_)
JoinWithSpaces(strings) ==
    IF strings = <<>> THEN <<>>
    ELSE IF Len(strings) = 1 THEN strings[1]
    ELSE strings[1] \o <<" ">> \o JoinWithSpaces(Tail(strings))
commandPreview(command) ==
    JoinWithSpaces([i \in DOMAIN command |-> shellQuoteArg(command[i])])

\* task-launcher-core.ts (part_003 lines 164-173): getVisibleTasks, for one task
IsVisibleField(field) == ~field.advanced
VisibleTask(task, advancedMode) ==
    IF advancedMode THEN task
    ELSE Task(task.id, task.advanced, SelectSeq(task.fields, IsVisibleField))
ManifestIds == { TASK_MANIFEST[i].id : i \in DOMAIN TASK_MANIFEST }
getTaskDefinitionById(taskId) ==
    TASK_MANIFEST[CHOOSE i \in DOMAIN TASK_MANIFEST : TASK_MANIFEST[i].id = taskId]
\* lines 191-205: getTaskByFlag (NoValue for undefined)
getTaskByFlag(taskId, advancedMode) ==
    IF taskId \notin ManifestIds THEN NoValue
    ELSE IF getTaskDefinitionById(taskId).advanced /\ ~advancedMode THEN NoValue
    ELSE Some(VisibleTask(getTaskDefinitionById(taskId), advancedMode))
\* the tasks selectTaskFromMenu offers
MenuTasks(advancedMode) ==
    { VisibleTask(TASK_MANIFEST[i], advancedMode) :
        i \in { j \in DOMAIN TASK_MANIFEST : advancedMode \/ ~TASK_MANIFEST[j].advanced } }

\* lines 108-119: parseBooleanInput (NoValue for undefined)
LowerPiece(c) == IF c = "Y" THEN "y" ELSE c
parseBooleanInput(raw) ==
    LET normalized == [i \in DOMAIN trim(raw) |-> LowerPiece(trim(raw)[i])]
    IN  IF normalized \in {<<"y">>, <<"yes">>, <<"true">>, <<"1">>} THEN Some(TRUE)
        ELSE IF normalized \in {<<"n">>, <<"no">>, <<"false">>, <<"0">>} THEN Some(FALSE)
        ELSE NoValue

\* lines 136-189 promptFieldValue, for one answer `raw` of the user (the loop
\* asks again after an answer that is not valid): the validation of the
\* candidate, or NoValue when the answer is not a yes/no
promptFieldValue(field, defaultValue, raw) ==
    LET trimmed == trim(raw)
    IN  IF field.type = "boolean"
          THEN IF trimmed = <<>> /\ typeOf(defaultValue) = "boolean"
                 THEN Some(validateField(field, defaultValue))
               ELSE IF parseBooleanInput(trimmed) = NoValue THEN NoValue
               ELSE Some(validateField(field, Bool(parseBooleanInput(trimmed)[1])))
        ELSE IF trimmed = <<>> THEN Some(validateField(field, defaultValue))
        ELSE Some(validateField(field, Str(trimmed)))

\* lines 214-235: extractPersistableValues
RECURSIVE ExtractFields(_, _, _)
ExtractFields(persisted, fields, values) ==
    IF fields = <<>> THEN persisted
    ELSE LET value == Get(values, Head(fields).key)
         IN  ExtractFields(
                 IF value # Undefined /\ isPrimitiveValue(value)
                   THEN Put(persisted, Head(fields).key, value) ELSE persisted,
                 Tail(fields), values)
extractPersistableValues(task, values) == ExtractFields(EmptyMap, task.fields, values)

\* lines 249-260: nextTaskValues of persistHistoryIfEnabled
NextTaskValues(h, fullTaskId, visibleTask, values) ==
    LET old == Get(h, fullTaskId)
        new == extractPersistableValues(visibleTask, values)
        spread == [k \in DOMAIN old \cup DOMAIN new |->
                     IF k \in DOMAIN new THEN new[k] ELSE old[k]]
        cleared == { visibleTask.fields[i].key : i \in
                       { j \in DOMAIN visibleTask.fields :
                           Get(values, visibleTask.fields[j].key) = Undefined } }
    IN  [k \in DOMAIN spread \ cleared |-> spread[k]]

PrintEvent(text) == <<"print", text>>
SpawnEvent(argv) == <<"spawn", argv>>
WriteFailedEvent == <<"writeFailed">>

\* what the user may type at a prompt
RawInputs ==
    {<<>>, <<"Y">>, <<"n">>, <<"https://", "pv.app">>, <<"1", "0">>,
     <<"my", " ", "run">>}
\* the history file before the run
SavedBefore ==
    [t \in {"sitemap:open"} |->
       [k \in {"maxUrls", "yes", "stale"} |->
          IF k = "maxUrls" THEN Num(20) ELSE IF k = "yes" THEN Bool(TRUE)
          ELSE Str(<<"x">>)]]
LauncherFiles == {NoValue, Some(Corrupt), saveHistory(SavedBefore)}

LauncherInit ==
    /\ flags \in LauncherFlagSets
    /\ selectedVisibleTask = NoValue
    /\ history = <<>>
    /\ taskHistoryValues = <<>>
    /\ enteredValues = <<>>
    /\ mergedValues = NoValue
    /\ taskArgs = NoValue
    /\ historyFile \in LauncherFiles
    /\ lnPc = "start"
    /\ lnExit = NoValue
    /\ lnEvents = <<>>

LauncherReturns(code) ==
    /\ lnPc' = "returned"
    /\ lnExit' = Some(code)

\* lines 296-311: the flags are parsed; a command line parseArgs rejects and
\* --help end the run
LnParseFlags ==
    /\ lnPc = "start"
    /\ IF flags.unknownOption THEN LauncherReturns(1)
       ELSE IF flags.help THEN LauncherReturns(0)
       ELSE lnPc' = "selecting" /\ UNCHANGED lnExit
    /\ UNCHANGED <<flags, selectedVisibleTask, history, taskHistoryValues,
                   enteredValues, mergedValues, taskArgs, historyFile, lnEvents>>
    /\ UNCHANGED notLauncherVars

\* lines 313-316 and 270-294: getTaskForRun; the task named by --task, or the
\* one picked from the menu (no pick: prompt returned null)
LnSelectTask ==
    /\ lnPc = "selecting"
    /\ IF flags.task # NoValue
         THEN IF getTaskByFlag(flags.task[1], flags.advanced) = NoValue
                THEN LauncherReturns(1) /\ UNCHANGED selectedVisibleTask
              ELSE /\ selectedVisibleTask' = getTaskByFlag(flags.task[1], flags.advanced)
                   /\ lnPc' = "loading"
                   /\ UNCHANGED lnExit
       ELSE \/ LauncherReturns(0) /\ UNCHANGED selectedVisibleTask
            \/ \E task \in MenuTasks(flags.advanced) :
                 /\ selectedVisibleTask' = Some(task)
                 /\ lnPc' = "loading"
                 /\ UNCHANGED lnExit
    /\ UNCHANGED <<flags, history, taskHistoryValues, enteredValues, mergedValues,
                   taskArgs, historyFile, lnEvents>>
    /\ UNCHANGED notLauncherVars

\* line 328: `flags.noHistory ? {} : await loadHistory(HISTORY_PATH)`
readsHistory(f) == ~f.noHistory

\* lines 328-329: the history is loaded unless --no-history was given
LnLoadHistory ==
    /\ lnPc = "loading"
    /\ IF readsHistory(flags)
         THEN \E readFails \in BOOLEAN :
                /\ history' = loadHistory(historyFile, readFails)
                /\ taskHistoryValues' =
                     Get(loadHistory(historyFile, readFails), selectedVisibleTask[1].id)
                /\ lnEvents' = Append(lnEvents,
                                      IF readFails THEN ReadFailedEvent ELSE ReadEvent)
       ELSE /\ history' = EmptyMap
            /\ taskHistoryValues' = EmptyMap
            /\ UNCHANGED lnEvents
    /\ lnPc' = "prompting"
    /\ UNCHANGED <<flags, selectedVisibleTask, enteredValues, mergedValues, taskArgs,
                   historyFile, lnExit>>
    /\ UNCHANGED notLauncherVars

\* the field the loop of lines 337-345 is at
NextField ==
    selectedVisibleTask[1].fields[Cardinality(DOMAIN enteredValues) + 1]
AllEntered ==
    Cardinality(DOMAIN enteredValues) = Len(selectedVisibleTask[1].fields)

\* lines 337-345: one field is prompted for, until the answer is accepted;
\* prompt returns null when the user cancels
LnPromptField ==
    /\ lnPc = "prompting"
    /\ ~AllEntered
    /\ \/ /\ LauncherReturns(0)
          /\ UNCHANGED enteredValues
       \/ \E raw \in RawInputs :
            LET field == NextField
                defaultValues ==
                    mergeTaskValues(selectedVisibleTask[1], taskHistoryValues, EmptyMap)
                result == promptFieldValue(field, Get(defaultValues, field.key), raw)
            IN  /\ result # NoValue
                /\ result[1].valid
                /\ enteredValues' =
                     Put(enteredValues, field.key, result[1].normalizedValue)
                /\ UNCHANGED <<lnPc, lnExit>>
    /\ UNCHANGED <<flags, selectedVisibleTask, history, taskHistoryValues,
                   mergedValues, taskArgs, historyFile, lnEvents>>
    /\ UNCHANGED notLauncherVars

\* ["deno", "task", ...taskArgs]
DenoCommand(result) == << <<"deno">>, <<"task">> >> \o result.value

\* lines 347-364: the values are merged, the arguments built and the resolved
\* command printed; arguments that cannot be built end the run
LnResolveCommand ==
    /\ lnPc = "prompting"
    /\ AllEntered
    /\ LET merged == mergeTaskValues(selectedVisibleTask[1], taskHistoryValues,
                                     enteredValues)
           built == buildCommandArgs(selectedVisibleTask[1], merged)
       IN  /\ mergedValues' = Some(merged)
           /\ taskArgs' = Some(built)
           /\ IF built.kind = "threw"
                THEN LauncherReturns(1) /\ UNCHANGED lnEvents
              ELSE /\ lnEvents' = Append(lnEvents,
                                         PrintEvent(commandPreview(DenoCommand(built))))
                   /\ lnPc' = "resolved"
                   /\ UNCHANGED lnExit
    /\ UNCHANGED <<flags, selectedVisibleTask, history, taskHistoryValues,
                   enteredValues, historyFile>>
    /\ UNCHANGED notLauncherVars

\* lines 245-247: `if (noHistory) return`
persistsHistory(noHistory) == ~noHistory

\* lines 237-268 persistHistoryIfEnabled: the file is written (saved) or the
\* failure of saveHistory is reported as a warning
PersistHistoryIfEnabled(saved) ==
    IF persistsHistory(flags.noHistory)
      THEN LET next == Put(history, selectedVisibleTask[1].id,
                          NextTaskValues(history, selectedVisibleTask[1].id,
                                         selectedVisibleTask[1], mergedValues[1]))
           IN  /\ history' = next
               /\ IF saved
                    THEN /\ historyFile' = saveHistory(next)
                         /\ lnEvents' = Append(lnEvents, WriteEvent)
                  ELSE /\ UNCHANGED historyFile
                       /\ lnEvents' = Append(lnEvents, WriteFailedEvent)
    ELSE UNCHANGED <<history, historyFile, lnEvents>>

\* (variant: a dry run goes on to the confirmation)
NeverDryRun(f) == FALSE
\* line 366: `if (flags.dryRun)`
isDryRun(f) == f.dryRun

\* lines 366-377: a dry run saves the history and returns
LnDryRun ==
    /\ lnPc = "resolved"
    /\ isDryRun(flags)
    /\ \E saved \in BOOLEAN : PersistHistoryIfEnabled(saved)
    /\ LauncherReturns(0)
    /\ UNCHANGED <<flags, selectedVisibleTask, taskHistoryValues, enteredValues,
                   mergedValues, taskArgs>>
    /\ UNCHANGED notLauncherVars

\* lines 379-392: the user confirms (the history is saved) or declines
LnConfirm ==
    /\ lnPc = "resolved"
    /\ ~isDryRun(flags)
    /\ \/ /\ LauncherReturns(0)
          /\ UNCHANGED <<history, historyFile, lnEvents>>
       \/ /\ \E saved \in BOOLEAN : PersistHistoryIfEnabled(saved)
          /\ lnPc' = "spawning"
          /\ UNCHANGED lnExit
    /\ UNCHANGED <<flags, selectedVisibleTask, taskHistoryValues, enteredValues,
                   mergedValues, taskArgs>>
    /\ UNCHANGED notLauncherVars

\* the exit statuses of the command
ChildStatuses == {0, 1, 2}
\* lines 394-409: the command is spawned and its status returned, or the
\* spawn fails
LnSpawn ==
    /\ lnPc = "spawning"
    /\ \/ \E code \in ChildStatuses :
            /\ lnEvents' = Append(lnEvents, SpawnEvent(DenoCommand(taskArgs[1])))
            /\ LauncherReturns(code)
       \/ /\ LauncherReturns(1)
          /\ UNCHANGED lnEvents
    /\ UNCHANGED <<flags, selectedVisibleTask, history, taskHistoryValues,
                   enteredValues, mergedValues, taskArgs, historyFile>>
    /\ UNCHANGED notLauncherVars

LauncherNext ==
    \/ LnParseFlags
    \/ LnSelectTask
    \/ LnLoadHistory
    \/ LnPromptField
    \/ LnResolveCommand
    \/ LnDryRun
    \/ LnConfirm
    \/ LnSpawn

(***************************************************************************)
(* Specifications: one per component                                       *)
(***************************************************************************)
\* withRetry alone: the other components do not run
InitRetry ==
    /\ RetryInit /\ CacheIdle /\ SitemapIdle /\ PipelineIdle /\ MainIdle /\ BranchIdle
    /\ TransformIdle /\ LauncherIdle
RetrySpec == InitRetry /\ [][RetryNext]_vars

\* the cache functions alone
InitCache ==
    /\ CacheInit /\ RetryIdle /\ SitemapIdle /\ PipelineIdle /\ MainIdle /\ BranchIdle
    /\ TransformIdle /\ LauncherIdle
CacheSpec == InitCache /\ [][CacheNext]_vars

\* fetchSitemapUrls alone
InitSitemap ==
    /\ SitemapInit /\ RetryIdle /\ CacheIdle /\ PipelineIdle /\ MainIdle /\ BranchIdle
    /\ TransformIdle /\ LauncherIdle
SitemapSpec == InitSitemap /\ [][SitemapNext]_vars
\* every fetch settles: curl runs with --max-time and withRetry makes a
\* bounded number of attempts
FairSitemapSpec == SitemapSpec /\ WF_vars(SitemapNext)

\* fetchSitemapUrls on a site of four sitemaps whose fetches and parses all
\* succeed: the root and three nested sitemaps, each listing one page of its
\* own and up to two nested sitemaps, in any order
DeepPaths == SitemapPaths \cup { <<"s", "3">> }
DeepLocs == { [host |-> HostOf(pth), path |-> pth] : pth \in DeepPaths \ {RootPath} }
PageOf(pth) == [host |-> "ex", path |-> <<pth[2]>>]
DeepDoc(pth, nested) == [kind |-> "xml", urls |-> <<PageOf(pth)>>, nested |-> nested]
DeepSitemapInit ==
    /\ smOpts \in [maxNestedDepth : {Some(1), Some(2)},
                    followNestedSitemaps : {Unset}, maxUrls : {Unset}]
    /\ rootUrl = [host |-> "ex", path |-> RootPath]
    /\ \E nested \in [DeepPaths -> DistinctSeqsUpTo(DeepLocs, MaxLocs)] :
         web = [pth \in DeepPaths |-> DeepDoc(pth, nested[pth])]
    /\ visitedSitemaps = {}
    /\ stack = <<Frame(rootUrl, 0)>>
    /\ smPc = "running"
    /\ smResult = <<>>
    /\ smCollected = <<>>
    /\ fetchCount = [pth \in DeepPaths |-> 0]
    /\ parsedOk = {}
    /\ failedSitemaps = {}
    /\ skippedByDepth = {}
InitDeepSitemap ==
    /\ DeepSitemapInit /\ RetryIdle /\ CacheIdle /\ PipelineIdle /\ MainIdle /\ BranchIdle
    /\ TransformIdle /\ LauncherIdle
DeepSitemapSpec == InitDeepSitemap /\ [][SitemapNext]_vars

\* a whole run of main: start, sweep, discovery, then the tasks
InitMain ==
    /\ MainInit /\ RetryIdle /\ SitemapIdle /\ BranchIdle
    /\ TransformIdle /\ LauncherIdle
MainSpec == InitMain /\ [][MainNext]_vars

\* a run of main in a directory that holds the launcher's history file
InitCacheDir ==
    /\ CacheDirInit /\ RetryIdle /\ SitemapIdle /\ BranchIdle
    /\ TransformIdle /\ LauncherIdle
CacheDirSpec == InitCacheDir /\ [][MainNext]_vars

\* main from the point where the targets are known
InitPipeline ==
    /\ PipelineInit /\ RetryIdle /\ SitemapIdle /\ MainIdle /\ BranchIdle
    /\ TransformIdle /\ LauncherIdle
PipelineSpec == InitPipeline /\ [][PipelineNext]_vars
\* every await of a task settles (a capture is aborted after timeoutMs and
\* retried a bounded number of times, file operations complete) and p-limit
\* starts a waiting call as soon as a slot is free
FairPipelineSpec == PipelineSpec /\ WF_vars(PipelineNext)

\* the failure handling of runVisualTest on its own: a run without cache in
\* which the first capture of every target rejects, with any value a `throw`
\* can raise
ReporterInit == PipelineInit /\ config.noCache

\* lines 282 and 318-330: takeScreenshot(prodUrl) rejects and the catch block runs
ProdCaptureRejects(t) ==
    /\ Running /\ t \in Targets
    /\ pc[t] = "captureProd"
    /\ \E e \in ThrownValues : CatchBlock(t, e)
    /\ consoleLines' = consoleLines \cup {logError("prod", t)}
    /\ UNCHANGED errorSummary
    /\ UNCHANGED <<targetUrls, prodShot, fileIoQueue, cmpQueue, processed,
                   withChanges, mainPc, exitCode, cache>>
    /\ UNCHANGED notPipelineVars

ReporterNext ==
    \/ \E t \in TargetIds : StartTask(t)
    \/ \E t \in TargetIds : ProdCaptureRejects(t)
    \/ \E t \in TargetIds : TaskCompletes(t)
    \/ MainReturns

InitReporter ==
    /\ ReporterInit /\ RetryIdle /\ SitemapIdle /\ MainIdle /\ BranchIdle
    /\ TransformIdle /\ LauncherIdle
ReporterSpec == InitReporter /\ [][ReporterNext]_vars

\* the branch-compare script alone
InitBranch ==
    /\ BranchInit /\ RetryIdle /\ CacheIdle /\ SitemapIdle /\ PipelineIdle /\ MainIdle
    /\ TransformIdle /\ LauncherIdle
BranchSpec == InitBranch /\ [][BranchNext]_vars

\* the preview URL of one target
InitTransform ==
    /\ TransformInit /\ RetryIdle /\ CacheIdle /\ SitemapIdle /\ PipelineIdle
    /\ MainIdle /\ BranchIdle /\ LauncherIdle
TransformSpec == InitTransform /\ [][TransformNext]_vars

\* the functions of task-launcher-core.ts on their own
InitMerge ==
    /\ MergeInit /\ RetryIdle /\ CacheIdle /\ SitemapIdle /\ PipelineIdle
    /\ MainIdle /\ BranchIdle /\ TransformIdle
MergeSpec == InitMerge /\ [][MergeNext]_vars
InitBuild ==
    /\ BuildInit /\ RetryIdle /\ CacheIdle /\ SitemapIdle /\ PipelineIdle
    /\ MainIdle /\ BranchIdle /\ TransformIdle
BuildSpec == InitBuild /\ [][BuildNext]_vars
\* loadHistory and saveHistory on one history file
InitHistory ==
    /\ HistoryInit /\ RetryIdle /\ CacheIdle /\ SitemapIdle /\ PipelineIdle
    /\ MainIdle /\ BranchIdle /\ TransformIdle
HistorySpec == InitHistory /\ [][HistoryNext]_vars
\* a run of the launcher
InitLauncher ==
    /\ LauncherInit /\ RetryIdle /\ CacheIdle /\ SitemapIdle /\ PipelineIdle
    /\ MainIdle /\ BranchIdle /\ TransformIdle
LauncherSpec == InitLauncher /\ [][LauncherNext]_vars

(***************************************************************************)
(* Properties                                                              *)
(***************************************************************************)
LookedUp == lastLookup.filename # <<>>
LookupAge == lastLookup.at - lastLookup.entry[1].mtimeMs

\* C7 as stated: the lookup returns the cached image if and only if an entry
\* for the key exists and now - entryModTime < cacheTtlMs.
C7_Original_HitIffExistsAndFresh ==
    LookedUp =>
        ( lastLookup.result # Null
          <=> /\ lastLookup.entry # NoEntry
              /\ LookupAge < config.cacheTtlMs )

\* C7 amended: getCachedProdScreenshot returns the cached image if and only
\* if an entry for the key exists, now - entryModTime < cacheTtlMs and the
\* file can be read; an entry whose age is equal to or greater than the TTL
\* is a miss, and a hit returns the image the entry holds.
C7_HitIffExistsFreshAndReadable ==
    LookedUp =>
        /\ lastLookup.result # Null
           <=> /\ lastLookup.entry # NoEntry
               /\ LookupAge < config.cacheTtlMs
               /\ lastLookup.ioOk
        /\ lastLookup.result # Null =>
               lastLookup.result = Some(lastLookup.entry[1].data)

\* C7 witness: with a TTL of 2 ticks (1000 ms) an entry written at T and read
\* at T + 2 ticks (age equal to the TTL) by a read that succeeds is a miss
C7_Witness ==
    /\ LookedUp
    /\ config.cacheTtlMs = 2
    /\ lastLookup.entry # NoEntry
    /\ lastLookup.ioOk
    /\ LookupAge = 2
    /\ lastLookup.result = Null

\* ---- the sitemap resolver ----
\* what a <loc> value found in the sitemap at `pth` stands for
Resolved(loc, pth) ==
    IF loc.host = Relative THEN [host |-> HostOf(pth), path |-> loc.path]
                           ELSE Serialize(loc)
PagesOf(p) == { Resolved(web[p].urls[i], p) : i \in DOMAIN web[p].urls }
NestedOf(p) == { web[p].nested[i].path : i \in DOMAIN web[p].nested }
NoDuplicates(q) == \A i, j \in DOMAIN q : q[i] = q[j] => i = j
\* the options that do not restrict the result
Untruncated == smOpts.maxUrls = Unset

\* C3: during one call of fetchSitemapUrls every sitemap is fetched at most
\* once, also when it is reachable through several index documents or when a
\* nested sitemap refers back to the root sitemap.
C3_EachSitemapFetchedAtMostOnce ==
    \A p \in SitemapPaths : fetchCount[p] <= 1

\* C4: for sitemaps whose nested references form a cycle (A references B, B
\* references A) fetchSitemapUrls terminates, and what it returns (when no
\* maximum count truncates it) contains the page URLs listed in the sitemaps of
\* the cycle, and is exactly their union when the cycle is all that was fetched.
CycleOf(a, b) ==
    /\ a # b
    /\ {a, b} \subseteq parsedOk
    /\ b \in NestedOf(a)
    /\ a \in NestedOf(b)
C4_CycleTerminatesWithUnion ==
    /\ <>(smPc # "running")
    /\ [](\A a, b \in SitemapPaths :
            (smPc # "running" /\ CycleOf(a, b) /\ Untruncated) =>
                /\ smPc = "returned"
                /\ PagesOf(a) \cup PagesOf(b) \subseteq Range(smResult)
                /\ (parsedOk = {a, b} /\ failedSitemaps = {}) =>
                       Range(smResult) = PagesOf(a) \cup PagesOf(b))

\* C4 witness: the root and a nested sitemap refer to each other, both list
\* pages, and the call returned both pages
C4_Witness ==
    /\ smPc = "returned"
    /\ Untruncated
    /\ CycleOf(<<"s", "0">>, <<"s", "1">>)
    /\ PagesOf(<<"s", "0">>) # {}
    /\ PagesOf(<<"s", "1">>) # {}
    /\ PagesOf(<<"s", "0">>) # PagesOf(<<"s", "1">>)
    /\ Len(smResult) = 2

\* C9: a fetch failure or a parse failure of one nested sitemap makes that
\* branch contribute zero URLs and never aborts the resolution: the call
\* returns, every URL it returns is listed in a sitemap that was fetched and
\* parsed, and (when no maximum count truncates the result) it contains every
\* page URL of every sitemap that was fetched and parsed successfully.
C9_FailedBranchIsIsolated ==
    /\ smPc # "threw"
    /\ smPc = "returned" =>
         /\ Range(smResult) \subseteq UNION { PagesOf(p) : p \in parsedOk }
         /\ Untruncated =>
              UNION { PagesOf(p) : p \in parsedOk } \subseteq Range(smResult)

\* C9 witness: the root lists s1 then s2; the fetch (or the parse) of s1
\* failed and the pages of its sibling s2 were still returned
C9_Witness ==
    /\ smPc = "returned"
    /\ web[<<"s", "0">>].nested =
           << [host |-> "cdn", path |-> <<"s", "1">>],
              [host |-> "cdn", path |-> <<"s", "2">>] >>
    /\ <<"s", "1">> \in failedSitemaps
    /\ <<"s", "2">> \in parsedOk
    /\ PagesOf(<<"s", "2">>) # {}
    /\ PagesOf(<<"s", "2">>) \subseteq Range(smResult)

\* C10: for a sitemap index with N nested sitemaps that each list M unique
\* page URLs (all fetches succeeding, nested sitemaps followed, no maximum
\* count) fetchSitemapUrls returns exactly N*M targets; the returned list
\* never contains the same URL twice, and a URL listed in several sitemaps is
\* returned once.
IsIndexOf(kids, m) ==
    /\ web[RootPath].kind = "xml"
    /\ web[RootPath].urls = <<>>
    /\ NestedOf(RootPath) = kids
    /\ RootPath \notin kids
    /\ \A k \in kids :
         /\ k \in parsedOk
         /\ web[k].nested = <<>>
         /\ NoDuplicates(web[k].urls)
         /\ Cardinality(PagesOf(k)) = m
         /\ \A k2 \in kids \ {k} : PagesOf(k) \cap PagesOf(k2) = {}
C10_IndexYieldsNTimesMDeduplicated ==
    smPc = "returned" =>
        /\ NoDuplicates(smResult)
        /\ (Untruncated /\ failedSitemaps = {} /\ skippedByDepth = {}) =>
               Range(smResult) = UNION { PagesOf(p) : p \in parsedOk }
        /\ \A kids \in SUBSET SitemapPaths : \A m \in 1 .. MaxLocs :
               (Untruncated /\ IsIndexOf(kids, m)) =>
                   Len(smResult) = Cardinality(kids) * m

\* C10 witness: an index of N = 2 nested sitemaps with M = 1 page each
\* returned 2 targets
C10_Witness ==
    /\ smPc = "returned"
    /\ Untruncated
    /\ IsIndexOf({<<"s", "1">>, <<"s", "2">>}, 1)
    /\ Len(smResult) = 2

\* a page listed by two sitemaps was returned once
C10_SharedPageWitness ==
    /\ smPc = "returned"
    /\ PagesOf(<<"s", "1">>) \cap PagesOf(<<"s", "2">>) # {}
    /\ {<<"s", "1">>, <<"s", "2">>} \subseteq parsedOk
    /\ Len(smResult) = 1

\* C11: collectSitemapUrls never fetches a sitemap whose nesting depth (root =
\* depth 0) exceeds maxNestedDepth: every call that got past the depth test
\* (and so fetches, or has fetched) has a depth of at most maxNestedDepth; a
\* branch that is too deep raises no error and adds no URL, and the page URLs
\* of every sitemap that was fetched and parsed are still returned.
C11_NeverFetchesBeyondMaxDepth ==
    /\ \A i \in DOMAIN stack :
         stack[i].phase \in {"fetching", "looping"} =>
             stack[i].currentDepth <= maxDepth(smOpts)
    /\ Len(stack) <= maxDepth(smOpts) + 2
    /\ skippedByDepth # {} => smPc # "threw"
    /\ (smPc = "returned" /\ skippedByDepth # {}) =>
         /\ \A u \in skippedByDepth :
              u.path \notin parsedOk \cup failedSitemaps => fetchCount[u.path] = 0
         /\ Range(smResult) \subseteq UNION { PagesOf(p) : p \in parsedOk }
         /\ Untruncated =>
              UNION { PagesOf(p) : p \in parsedOk } \subseteq Range(smResult)

\* C11 witness: with maxNestedDepth 1 the chain s0 -> s1 -> s2 was cut at s2,
\* which was never fetched, and the pages of s1 were returned
C11_Witness ==
    /\ smPc = "returned"
    /\ smOpts.maxNestedDepth = Some(1)
    /\ [host |-> "cdn", path |-> <<"s", "2">>] \in skippedByDepth
    /\ fetchCount[<<"s", "2">>] = 0
    /\ <<"s", "1">> \in parsedOk
    /\ PagesOf(<<"s", "1">>) # {}
    /\ PagesOf(<<"s", "1">>) \subseteq Range(smResult)

\* ---- withRetry ----
RetryFinished == rPc \in {"returned", "threw"}

\* C5: withRetry with retries = R whose operation fails k times (0 <= k <= R)
\* and then succeeds: the operation is invoked exactly k+1 times, withRetry
\* returns the value of the successful (k+1-th) attempt and raises no error;
\* until then it is still running with at most k+1 invocations made.
C5_RetrySucceedsAfterKFailures ==
    failsFirst <= retries(rOpts) =>
        /\ calls <= failsFirst + 1
        /\ rPc # "threw"
        /\ rThrown = NoValue
        /\ rPc = "returned" =>
              /\ calls = failsFirst + 1
              /\ rResult = OpValue(failsFirst + 1)

\* C5 witness: retries = 2, two failures, then the third attempt succeeded
C5_Witness ==
    /\ rOpts.retries = Some(2)
    /\ failsFirst = 2
    /\ rPc = "returned"
    /\ calls = 3

\* C6: withRetry with retries = R >= 0 whose operation fails on every attempt
\* invokes it exactly R+1 times and then fails with the error of the last
\* (R+1-th) attempt, unchanged; whatever the operation does, withRetry never
\* fails before R+1 invocations were made.
C6_RetryExhaustsThenRethrowsLast ==
    /\ rPc = "threw" =>
          /\ calls = retries(rOpts) + 1
          /\ rThrown = OpError(retries(rOpts) + 1)
          /\ rResult = NoValue
    /\ failsFirst > retries(rOpts) =>
          /\ calls <= retries(rOpts) + 1
          /\ rPc # "returned"
          /\ (rPc = "calling" => calls <= retries(rOpts))

\* C6 witness: every attempt failed and withRetry gave up after retries + 1
C6_Witness ==
    /\ rOpts.retries = Some(2)
    /\ failsFirst > 2
    /\ rPc = "threw"
    /\ calls = 3

(***************************************************************************)
(* Properties of the pipeline                                              *)
(***************************************************************************)
Returned == mainPc = "returned" /\ Targets # {}
TargetsWith(label) == { t \in Targets : label \in outcome[t] }
RecordsOf(t) == { i \in DOMAIN failedUrls : failedUrls[i].url = targetUrls[t] }

\* C1: at every moment the number of targets in processing is at most
\* screenshotConcurrency, the number of comparisons running is at most
\* comparisonConcurrency and the number of persist operations running is at
\* most fileIoConcurrency.
C1_ConcurrencyCeilings ==
    /\ ScreenshotActive <= config.screenshotConcurrency
    /\ ComparisonActive <= config.comparisonConcurrency
    /\ FileIoActive <= config.fileIoConcurrency

\* the ceilings bind: a target waits for a task slot and a comparison waits
\* for a comparison slot while both limiters are full
C1_Witness ==
    /\ Running
    /\ ScreenshotActive = config.screenshotConcurrency
    /\ \E t \in Targets : pc[t] = "queued"
    /\ ComparisonActive = config.comparisonConcurrency
    /\ cmpQueue # <<>>

\* a save waits for a slot of the file limiter while it is full
C1_FileIoWitness ==
    /\ Running
    /\ FileIoActive = config.fileIoConcurrency
    /\ fileIoQueue # <<>>

Capturing ==
    { t \in Targets :
        pc[t] \in {"cacheLookup", "captureProd", "cacheWrite", "capturePreview"} }
BeyondCapture ==
    { t \in Targets : pc[t] \in {"saveWait", "saving", "compareWait", "comparing"} }

\* C12: the three ceilings are independent: a target that waits for or holds
\* a comparison slot or a file-I/O slot occupies no capture slot, so a waiting
\* target can start capturing whenever fewer than screenshotConcurrency
\* targets are capturing, and a comparison at the head of its queue starts
\* whenever a comparison slot is free, whatever the capture pool holds.
C12_CeilingsAreIndependent ==
    Running =>
        /\ \A t \in BeyondCapture : ~InScreenshotSlot(t)
        /\ ( /\ \E t \in Targets : pc[t] = "queued"
             /\ Cardinality(Capturing) < config.screenshotConcurrency )
           => HasFreeSlot(ScreenshotActive, config.screenshotConcurrency)
        /\ ( /\ cmpQueue # <<>>
             /\ HasFreeSlot(ComparisonActive, config.comparisonConcurrency) )
           => ENABLED CompareStarts(Head(cmpQueue))

\* the comparison pool is saturated (one comparing, one waiting), nothing is
\* being captured, and the third target still cannot start
C12_StarvedCaptureWitness ==
    /\ Running
    /\ config.screenshotConcurrency = 2
    /\ config.comparisonConcurrency = 1
    /\ ComparisonActive = 1
    /\ cmpQueue # <<>>
    /\ Capturing = {}
    /\ \E t \in Targets : pc[t] = "queued"
    /\ ~ \E t \in TargetIds : ENABLED StartTask(t)

\* C13: in runVisualTest, when caching is enabled and the lookup is a hit the
\* production URL is not captured (the task goes on to the preview capture
\* with the cached image); the production URL is captured only after a miss
\* or with noCache; after a miss the captured image is then written to the
\* cache under the target's key; with noCache no task reads or writes the
\* cache.
C13_BaselineSourcing ==
    [][\A t \in Targets :
         LET key == urlToFilename(targetUrls[t])
         IN /\ (pc[t] # "captureProd" /\ pc'[t] = "captureProd") =>
                  /\ prodShot'[t] = Null
                  /\ \/ config.noCache /\ pc[t] = "queued"
                     \/ ~config.noCache /\ pc[t] = "cacheLookup"
            /\ (pc[t] = "cacheLookup" /\ prodShot'[t] # Null) =>
                  /\ pc'[t] = "capturePreview"
                  /\ prodShot'[t] = Some(cache[key][1].data)
            /\ (pc[t] = "captureProd" /\ pc'[t] \notin {"captureProd", "returned"}) =>
                  /\ prodShot'[t] # Null
                  /\ pc'[t] = IF config.noCache THEN "capturePreview" ELSE "cacheWrite"
            /\ (pc[t] = "cacheWrite" /\ pc'[t] = "capturePreview") =>
                  cache'[key] = CacheEntry(now, prodShot[t][1])
            /\ (pc'[t] = "capturePreview" /\ pc[t] # "capturePreview") =>
                  pc[t] \in {"cacheLookup", "cacheWrite", "captureProd"}
            /\ config.noCache =>
                  /\ pc'[t] \notin {"cacheLookup", "cacheWrite"}
                  /\ cache' = cache
            /\ cache' # cache => \E u \in Targets : pc[u] = "cacheWrite"
      ]_vars

\* C13 witness: one target took its baseline from the cache (the image the
\* entry held) while another, after a miss, captured it and has written it
C13_Witness ==
    /\ Running
    /\ ~config.noCache
    /\ \E t, u \in Targets :
         /\ pc[t] = "capturePreview" /\ prodShot[t] = Some("img1")
         /\ pc[u] = "capturePreview" /\ prodShot[u] = Some("img2")
         /\ cache[urlToFilename(targetUrls[u])] = CacheEntry(now, "img2")

\* ---- the start of main and the sweep ----
SweepInFlight == { f \in Filenames : sweepPhase[f] \in {"stat", "unlink"} }
PastSweep == mainPc \in {"runDir", "resolving", "awaitingTasks"} \/ targetUrls # <<>>
\* the tasks that have written their capture to the cache and gone on
WroteCache ==
    { t \in Targets :
        /\ ~config.noCache
        /\ prodShot[t] = Some("img2")
        /\ pc[t] \in {"capturePreview", "saveWait", "saving", "compareWait",
                      "comparing", "diffing"} }

\* C14: cleanOldCache is called exactly once per run, and it has completed
\* (none of its file operations is still in progress) before sitemap
\* resolution and before the first cache lookup, cache write or capture, so
\* that no cache entry written during the run is removed by the run's sweep.
C14_SweepOnceAndCompleteBeforeProcessing ==
    /\ sweeps <= 1
    /\ PastSweep => sweeps = 1 /\ SweepInFlight = {}
    /\ \A t \in WroteCache : cache[urlToFilename(targetUrls[t])] # NoEntry

\* a run in which the sweep returned on a failed callback, and a callback it
\* left behind removed the entry a task had written in the meantime
C14_LateUnlinkWitness ==
    \E t \in WroteCache :
        /\ cache[urlToFilename(targetUrls[t])] = NoEntry
        /\ sweepPhase[urlToFilename(targetUrls[t])] = "done"
        /\ \E f \in Filenames : sweepPhase[f] = "failed"

Age(f) == now - cache[f][1].mtimeMs
\* the call of cleanOldCache has returned and no task runs yet
SweepReturned == mainPc \in {"runDir", "resolving"}
\* ... and every file operation of the sweep succeeded
SweepSucceeded ==
    /\ SweepReturned
    /\ \A f \in Filenames :
          /\ sweepPhase[f] \in {"none", "done"}
          /\ cache[f] # NoEntry => sweepPhase[f] = "done"

ConfigAccepted ==
    /\ mainPc # "start"
    /\ ~GetScriptConfigThrows(args)
    /\ ~args.help
    /\ args.sitemapUrl

\* C16: in every configuration that getScriptConfig accepts the cleanup age
\* is longer than the TTL, so the sweep never selects for deletion an entry
\* that a lookup of the same run would still serve as fresh.
C16_CleanupAgeLongerThanTtl ==
    ConfigAccepted =>
        /\ config.cacheCleanupAgeMs > config.cacheTtlMs
        /\ \A f \in Filenames :
              (sweepPhase[f] = "unlink" /\ cache[f] # NoEntry)
                  => ~IsFresh(Age(f), config.cacheTtlMs)

\* an accepted configuration whose cleanup age is shorter than its TTL, under
\* which the sweep is about to unlink an entry that is still fresh
C16_FreshEntrySweptWitness ==
    /\ ConfigAccepted
    /\ config.cacheCleanupAgeMs < config.cacheTtlMs
    /\ mainPc = "sweeping"
    /\ \E f \in Filenames :
          /\ sweepPhase[f] = "unlink"
          /\ cache[f] # NoEntry
          /\ IsFresh(Age(f), config.cacheTtlMs)

Key(t) == urlToFilename(targetUrls[t])

\* C17: a lookup never deletes or changes a cache entry: a stale entry is
\* reported as a miss and stays where it is. An entry disappears only in an
\* unlink of cleanOldCache and is replaced only by cacheProdScreenshot.
C17_LookupLeavesTheEntry ==
    [][/\ \A t \in Targets :
            (pc[t] = "cacheLookup" /\ pc'[t] # "cacheLookup") =>
                /\ cache' = cache
                /\ (cache[Key(t)] # NoEntry
                      /\ ~IsFresh(Age(Key(t)), config.cacheTtlMs))
                     => pc'[t] = "captureProd" /\ prodShot'[t] = Null
       /\ \A f \in Filenames :
            cache'[f] # cache[f] =>
                IF cache'[f] = NoEntry
                  THEN sweepPhase[f] = "unlink" /\ sweepPhase'[f] = "done"
                  ELSE \E t \in Targets :
                          /\ Key(t) = f
                          /\ pc[t] = "cacheWrite"
                          /\ pc'[t] = "capturePreview"]_vars

\* a lookup has just reported a stale entry as a miss and the entry is there
C17_Witness ==
    \E t \in Targets :
        /\ ~config.noCache
        /\ pc[t] = "captureProd"
        /\ prodShot[t] = Null
        /\ cache[Key(t)] # NoEntry
        /\ ~IsFresh(Age(Key(t)), config.cacheTtlMs)

\* C18: a failing cache operation is never fatal. Whatever a cache read, a
\* cache write or the sweep does, the target is not recorded as failed in
\* that step and goes on with its comparison, and the run does not end.
C18_CacheFailureNeverFatal ==
    [][/\ \A t \in Targets :
            (pc[t] \in {"cacheLookup", "cacheWrite"} /\ pc'[t] # pc[t]) =>
                /\ pc'[t] \in {"captureProd", "cacheWrite", "capturePreview"}
                /\ outcome'[t] = outcome[t]
                /\ errorCount' = errorCount
       /\ mainPc \in {"sweepCall", "sweeping"} =>
            /\ mainPc' \in {"sweepCall", "sweeping", "runDir"}
            /\ exitCode' = exitCode]_vars

\* the write of a captured baseline to the cache failed and the target has
\* been recorded as failed without a comparison
C18_WriteFailureFailsTargetWitness ==
    \E t \in Targets :
        /\ ~config.noCache
        /\ pc[t] = "returned"
        /\ outcome[t] = {"failed"}
        /\ prodShot[t] = Some("img2")
        /\ \E i \in 1 .. Len(failedUrls) :
              /\ failedUrls[i].url = targetUrls[t]
              /\ failedUrls[i].errorType = "FILE_IO_ERROR"
        /\ cache[Key(t)] = NoEntry
        /\ sweepPhase[Key(t)] = "none"

\* C19: the cache key is a function of the target URL alone and two
\* different target URLs never have the same key: no two targets that have
\* been started share a key, so no target finds the cache entry (or writes
\* the screenshot and diff files) of another target.
C19_DistinctUrlsDistinctKeys ==
    /\ \A t \in Targets, u \in Targets :
          (targetUrls[t] # targetUrls[u] /\ pc[t] # "queued" /\ pc[u] # "queued")
              => Key(t) # Key(u)
    /\ \A u \in Targets :
          (pc[u] = "cacheLookup" /\ cache[Key(u)] # NoEntry)
              => cache[Key(u)][1].data # "img2"

\* a target about to look up its key finds there the capture that the task
\* of a different URL has written in this run
C19_SharedEntryWitness ==
    \E t \in Targets, u \in Targets :
        /\ targetUrls[t] # targetUrls[u]
        /\ Key(t) = Key(u)
        /\ pc[t] \in {"capturePreview", "saveWait", "saving"}
        /\ pc[u] = "cacheLookup"
        /\ cache[Key(u)] = CacheEntry(now, "img2")

\* main has gone through sitemap resolution
Discovered == ConfigAccepted /\ mainPc \in {"awaitingTasks", "returned"}
Excluded(url) == ~shouldTestUrl(url)

\* C20: when discovery yields no target (fetchSitemapUrls returns nothing,
\* as it does when the root sitemap cannot be fetched or parsed, or every
\* URL it returned is excluded by the filter) main returns a non-zero code
\* and no target is ever started, so nothing is captured.
C20_NoTargetFailsTheRun ==
    (Discovered /\ \A i \in DOMAIN urlsFromSitemap : Excluded(urlsFromSitemap[i]))
        => /\ mainPc = "returned"
           /\ exitCode = Some(1)
           /\ targetUrls = <<>>
           /\ pc = <<>>
           /\ processed = 0

\* a run whose sitemap listed excluded URLs only has ended with code 1
C20_Witness ==
    /\ Discovered
    /\ urlsFromSitemap = <<FeedUrl, ApiUrl>>
    /\ exitCode = Some(1)
    /\ pc = <<>>

\* ---- the delays of withRetry ----
\* min(maxRetryDelayMs, retryDelayMs * backoffMultiplier^(n-1)) for retry n
NominalDelay(n) ==
    Min(maxRetryDelayMs(rOpts), retryDelayMs(rOpts) * Pow(backoffMultiplier(rOpts), n - 1))

\* C21: without jitter the delay slept before retry n is
\* min(maxRetryDelayMs, retryDelayMs * backoffMultiplier^(n-1)), the delays
\* never decrease and never exceed maxRetryDelayMs; with jitter the delay is
\* a whole number of milliseconds, at least 1, within half a millisecond of
\* the interval [0.8, 1.2] times that value.
C21_BackoffDelays ==
    /\ [](rPc = "sleeping" =>
            IF jitter(rOpts)
              THEN /\ delayMs >= 1
                   /\ 10 * delayMs >= 8 * NominalDelay(attempt) - 5
                   /\ 10 * delayMs <= 12 * NominalDelay(attempt) + 5
              ELSE /\ delayMs = NominalDelay(attempt)
                   /\ delayMs <= maxRetryDelayMs(rOpts))
    /\ [][(~jitter(rOpts) /\ rPc' = "sleeping") => delayMs' >= delayMs]_vars

\* C21 as stated: with jitter the delay lies within [0.8, 1.2] times the
\* nominal value.
C21_Original_JitterWithinInterval ==
    (rPc = "sleeping" /\ jitter(rOpts)) =>
        /\ 10 * delayMs >= 8 * NominalDelay(attempt)
        /\ 10 * delayMs <= 12 * NominalDelay(attempt)

\* the third retry sleeps the capped delay, which the first did not reach
C21_Witness ==
    /\ rPc = "sleeping"
    /\ ~jitter(rOpts)
    /\ attempt = 3
    /\ delayMs = maxRetryDelayMs(rOpts)
    /\ retryDelayMs(rOpts) * Pow(backoffMultiplier(rOpts), 2) > delayMs
    /\ NominalDelay(1) < delayMs

\* ---- the maximum count of fetchSitemapUrls ----
\* the position at which a URL was discovered first
FirstAt(u) == CHOOSE i \in DOMAIN smCollected :
                 smCollected[i] = u /\ \A j \in 1 .. (i - 1) : smCollected[j] # u
Distinct == Range(smCollected)

\* C22: with a maximum count maxUrls, fetchSitemapUrls truncates after the
\* deduplication: the result has no duplicate, holds
\* min(maxUrls, number of distinct URLs) URLs in the order of their first
\* discovery, and these are the URLs discovered first, so a duplicate never
\* uses up part of the budget.
C22_TruncatesAfterDedup ==
    (smPc = "returned" /\ smOpts.maxUrls # Unset) =>
        /\ NoDuplicates(smResult)
        /\ Range(smResult) \subseteq Distinct
        /\ Len(smResult) = Min(smOpts.maxUrls[1], Cardinality(Distinct))
        /\ \A i, j \in DOMAIN smResult :
              i < j => FirstAt(smResult[i]) < FirstAt(smResult[j])
        /\ \A u \in Distinct \ Range(smResult) : \A v \in Range(smResult) :
              FirstAt(v) < FirstAt(u)

\* a URL discovered twice among the first two, a budget of two, and both
\* distinct URLs returned
C22_Witness ==
    /\ smPc = "returned"
    /\ smOpts.maxUrls = Some(2)
    /\ Len(smCollected) >= 3
    /\ smCollected[1] = smCollected[2]
    /\ Len(smResult) = 2

\* ---- parseSitemapXml ----
\* the bodies that reached parseSitemapXml
ParsedBodies == { pth \in SitemapPaths : web[pth].kind \in {"notxml", "xml"} }

\* C23: parsing a malformed document (a body that is not XML) fails, it does
\* not succeed with nothing: parseSitemapXml never returns a result whose URL
\* list and nested-sitemap list are both empty, and a sitemap counts as
\* parsed only with at least one entry.
C23_NoEmptyParseSuccess ==
    /\ \A pth \in ParsedBodies :
          /\ (web[pth].kind = "notxml"
                \/ (web[pth].urls = <<>> /\ web[pth].nested = <<>>))
               => pth \notin parsedOk
          /\ fetchCount[pth] > 0 /\ pth \notin parsedOk
               => (smPc = "running" /\ Top.phase = "fetching" /\ Top.sitemapUrl.path = pth)
                  \/ pth \in failedSitemaps
    /\ \A pth \in parsedOk : web[pth].urls # <<>> \/ web[pth].nested # <<>>

\* a body that is not XML was answered for a nested sitemap and recorded as
\* a failure, while the run went on and returned the pages of the root
C23_Witness ==
    /\ smPc = "returned"
    /\ web[<<"s", "1">>].kind = "notxml"
    /\ <<"s", "1">> \in failedSitemaps
    /\ RootPath \in parsedOk
    /\ smResult # <<>>

\* ---- relative <loc> values ----
\* the URL under which the sitemap at `pth` is published
UrlOf(pth) == [host |-> HostOf(pth), path |-> pth]
InSitemaps(S) ==
    UNION { { Resolved(web[pth].urls[i], pth) : i \in DOMAIN web[pth].urls } : pth \in S }

RuleOrder ==
    <<"NETWORK_TIMEOUT", "SCREENSHOT_FAILURE", "FILE_IO_ERROR", "COMPARISON_ERROR">>
RuleSpellings ==
    << {"timeout", "Timeout", "etimedout", "ETIMEDOUT", "abort"},
       {"screenshot", "capture"},
       {"enoent", "ENOENT", "eacces", "EACCES"},
       {"compare", "pixelmatch"} >>
Mentions(rec, k) == rec.message \cap RuleSpellings[k] # {}
RulesMatching(rec) == { k \in DOMAIN RuleOrder : Mentions(rec, k) }

\* C26: every recorded failure carries the kind of the earliest rule, in the
\* order NetworkTimeout, ScreenshotFailure, FileIoError, ComparisonError, that
\* its message matches, and Unknown when it matches none
C26_FirstMatchingRuleWins ==
    \A i \in DOMAIN failedUrls :
        LET rec == failedUrls[i]
        IN IF RulesMatching(rec) = {}
           THEN rec.errorType = "UNKNOWN"
           ELSE \E k \in RulesMatching(rec) :
                    /\ \A j \in RulesMatching(rec) : k <= j
                    /\ rec.errorType = RuleOrder[k]

\* a recorded message that mentions a screenshot and a timeout, and one that
\* matches the file and comparison rules
C26_Witness ==
    /\ \E i \in DOMAIN failedUrls :
         /\ {"screenshot", "Timeout"} \subseteq failedUrls[i].message
         /\ failedUrls[i].errorType = "NETWORK_TIMEOUT"
    /\ \E i \in DOMAIN failedUrls :
         /\ {"compare", "EACCES"} \subseteq failedUrls[i].message
         /\ failedUrls[i].errorType = "FILE_IO_ERROR"

\* C27: whatever value is thrown while a target is processed, the failure
\* handler classifies it and records it: no task rejects, every counted failure
\* has its record, and the handler of one target never ends the run with a
\* failure status
C27_ReporterNeverThrows ==
    /\ \A t \in Targets : pc[t] # "rejected"
    /\ errorCount = Len(failedUrls)
    /\ exitCode \in {NoValue, Some(0)}

\* the run has ended with status 1 because the handler of one target raised,
\* while another target was never started
C27_AbortedRunWitness ==
    /\ exitCode = Some(1)
    /\ \E t \in Targets : pc[t] = "rejected"
    /\ \E t \in Targets : pc[t] = "queued"
    /\ errorCount > Len(failedUrls)

\* the lines of the console that describe the failure of one target
FailureLines == { l \in consoleLines : l.text = "Error taking screenshot for URL" }

\* C28: while the targets are processed nothing that describes the failure of a
\* target is written to the console: a failure shows only in the error log and
\* in the summary, and the only error line of the console is the one of a
\* failed run
C28_TargetFailuresNotOnConsole ==
    /\ FailureLines = {}
    /\ \A l \in consoleLines :
         l.stream = "error" => l.text = "Error running visual tests"

\* the preview capture of a target has failed for good: the target is recorded
\* as failed, the run goes on, and the console holds a line about that capture
C28_Witness ==
    \E t \in Targets :
        /\ "failed" \in outcome[t]
        /\ logError("preview", t) \in consoleLines
        /\ exitCode # Some(1)
        /\ \E i \in DOMAIN failedUrls : failedUrls[i].url = targetUrls[t]

RECURSIVE SumOfCounts(_)
SumOfCounts(f) ==
    IF DOMAIN f = {} THEN 0
    ELSE LET x == CHOOSE y \in DOMAIN f : TRUE
         IN f[x] + SumOfCounts([y \in DOMAIN f \ {x} |-> f[y]])

\* C29: a step only appends to the list of failure records (the records it
\* already holds stay where and what they are); the summary lists the failures
\* in the order they were recorded, and its per-kind counts add up to the
\* number of records, which is the failed counter
C29_RecordsAppendOnlyAndSummaryAgrees ==
    /\ [][/\ Len(failedUrls') >= Len(failedUrls)
          /\ SubSeq(failedUrls', 1, Len(failedUrls)) = failedUrls]_vars
    /\ [](errorSummary # NoValue =>
            LET written == errorSummary[1]
            IN /\ DOMAIN written.failed = DOMAIN failedUrls
               /\ \A i \in DOMAIN failedUrls :
                    /\ written.failed[i].n = i
                    /\ written.failed[i].url = failedUrls[i].url
                    /\ written.failed[i].errorType = failedUrls[i].errorType
                    /\ failedUrls[i].errorNumber = i
               /\ SumOfCounts(written.breakdown) = Len(failedUrls)
               /\ written.urlsFailed = Len(failedUrls)
               /\ errorCount = Len(failedUrls))

\* a summary was written for a run with three failures, two of one kind
C29_Witness ==
    /\ errorSummary # NoValue
    /\ Len(failedUrls) = 3
    /\ \E type \in DOMAIN errorSummary[1].breakdown :
         errorSummary[1].breakdown[type] = 2
    /\ Cardinality(DOMAIN errorSummary[1].breakdown) = 2

(***************************************************************************)
(* The branch-compare flow                                                 *)
(***************************************************************************)
BaselineCaptureFailed ==
    \E i \in DOMAIN brEvents : brEvents[i] = Event("captureFailed", "main", "baseline")

\* C30: once the baseline capture on main has failed, main is on its way out
\* with status 1; the target branch is not checked out for the comparison, no
\* capture is made on the comparison side and nothing is compared: the only
\* thing that can still happen is the checkout that puts the working tree back
\* on the branch it was on
C30_BaselineFailureEndsTheRun ==
    BaselineCaptureFailed =>
        /\ brPc \in {"finally", "returned"}
        /\ brExit = Some(1)
        /\ \A i \in DOMAIN brEvents :
             /\ brEvents[i].why # "comparison"
             /\ brEvents[i].op \notin {"compare", "diff"}
             /\ brEvents[i].op \in {"capture", "captureFailed"} => brEvents[i].why = "baseline"
        /\ \A i, j \in DOMAIN brEvents :
             (i < j /\ brEvents[i].op = "captureFailed") =>
                 /\ brEvents[j].why = "restore"
                 /\ brEvents[j].branch = originalBranch[1]

\* the script was started on the target branch, the baseline capture failed,
\* main returned 1 and the working tree is back on the target branch
C30_Witness ==
    /\ BaselineCaptureFailed
    /\ brPc = "returned"
    /\ brExit = Some(1)
    /\ brArgs.branchName = Some("feature")
    /\ originalBranch = Some("feature")
    /\ gitHead = "feature"
    /\ brEvents[Len(brEvents)] = Event("checkout", "feature", "restore")

\* the command line asks for a comparison: it parses, has no --help, names the
\* url and the branch, and its options are valid
ComparisonRequested ==
    /\ brArgs # NoValue
    /\ brArgs.parses /\ ~brArgs.help /\ brArgs.url
    /\ brArgs.branchName # Unset
    /\ ~parsePositiveInt(brArgs.retries).throws

\* C31: with tracked or untracked changes in the working tree no branch is
\* ever checked out and no screenshot is captured, and a run that asks for a
\* comparison does not end with status 0: main returns 1 as soon as it has
\* looked at the tree
C31_DirtyTreeStopsTheRun ==
    ~treeClean =>
        /\ brEvents = <<>>
        /\ originalBranch = Null
        /\ brPc \notin {"baseline", "switchToTarget", "comparison", "comparing", "diffing"}
        /\ brExit # Some(0) \/ ~ComparisonRequested
        /\ (ComparisonRequested /\ brPc \in {"finally", "returned"}) => brExit = Some(1)

\* a comparison was asked for in a dirty tree and main has returned 1
C31_Witness ==
    /\ ~treeClean
    /\ ComparisonRequested
    /\ brPc = "returned"
    /\ brExit = Some(1)
    /\ brEvents = <<>>

RestoreFailed ==
    \E i \in DOMAIN brEvents : brEvents[i].op = "gitFailed" /\ brEvents[i].why = "restore"

\* C40: when the tree was found clean and the original branch was read, and no
\* git command of the restore failed, main returns with the working tree on
\* the branch it was started on
C40_ReturnsOnTheOriginalBranch ==
    (brPc = "returned" /\ originalBranch # Null /\ ~RestoreFailed) =>
        getCurrentBranch(gitHead) = originalBranch[1]

\* main was started with HEAD detached, every git command succeeded, and main
\* has returned with the working tree on the target branch
C40_DetachedHeadWitness ==
    /\ brPc = "returned"
    /\ originalBranch = Some("HEAD")
    /\ ~RestoreFailed
    /\ brExit = Some(0)
    /\ gitHead = "feature"
    /\ brEvents[Len(brEvents)] = Event("checkout", "HEAD", "restore")

(***************************************************************************)
(* Sitemaps reachable by several chains                                    *)
(***************************************************************************)
\* the sitemaps that a chain of at most n nested references reaches from the
\* root, by what the server answers
RECURSIVE WithinChain(_)
WithinChain(n) ==
    IF n = 0 THEN {RootPath}
    ELSE LET near == WithinChain(n - 1)
         IN near \cup UNION { { web[pth].nested[i].path : i \in DOMAIN web[pth].nested } :
                                pth \in near }

\* C36: when no fetch and no parse fails, the list fetchSitemapUrls returns
\* holds the page of every sitemap that some chain of at most maxNestedDepth
\* nested references reaches from the root
C36_EveryReachablePageReturned ==
    (smPc = "returned" /\ DOMAIN web = DeepPaths) =>
        \A pth \in WithinChain(maxDepth(smOpts)) : PageOf(pth) \in Range(smResult)

\* the run has returned without the page of a sitemap that the root reaches
\* through two references: the sitemap that lists it was first visited at the
\* end of a longer chain, where its own references were too deep, and was
\* skipped as already visited when the shorter chain came to it
C36_ShadowedSitemapWitness ==
    /\ smPc = "returned"
    /\ DOMAIN web = DeepPaths
    /\ failedSitemaps = {}
    /\ \E pth \in WithinChain(2) :
         /\ maxDepth(smOpts) = 2
         /\ PageOf(pth) \notin Range(smResult)
         /\ fetchCount[pth] = 0
         /\ [host |-> "cdn", path |-> pth] \in skippedByDepth

C38_HistoryFileSurvivesTheSweep ==
    HISTORY_FILE \in DOMAIN cache => cache[HISTORY_FILE] # NoEntry
\* the sweep has removed a history file older than cacheCleanupAgeMs
C38_HistoryFileDeleted ==
    /\ HISTORY_FILE \in DOMAIN cache
    /\ cache[HISTORY_FILE] = NoEntry
    /\ sweepPhase[HISTORY_FILE] = "done"

(***************************************************************************)
(* C37: for every production URL and every preview domain of the command  *)
(* line (a bare host or a full URL, normalised by normalizePreviewDomain), *)
(* the preview URL has the origin of the preview domain and exactly the    *)
(* path, query and fragment of the production URL, with no added or        *)
(* doubled path separator; with no preview domain it is the production URL *)
(***************************************************************************)
C37_PreviewUrlKeepsPathOfProdUrl ==
    previewUrl # NoValue =>
        IF previewArg = NoValue THEN previewUrl[1] = prodUrl
        ELSE /\ UrlParses(previewUrl[1])
             /\ UrlOrigin(previewUrl[1]) =
                    UrlOrigin(normalizePreviewDomain(previewArg)[1])
             /\ UrlRest(previewUrl[1]) = UrlRest(prodUrl)
\* a full URL was given as preview domain and the preview URL of a page with a
\* path has been built
C37_FullUrlPreviewDomainWitness ==
    /\ previewArg = Some(<<"https://", "pv.app">>)
    /\ prodUrl = <<"https://", "prod.com", "/", "a">>
    /\ previewUrl = Some(<<"https://", "pv.app", "/", "/", "a">>)
\* the same with the preview domain given as a bare host
C37_BareHostHolds ==
    (previewUrl # NoValue /\ previewArg = Some(<<"pv.app">>)
        /\ prodUrl[2] = "prod.com") =>
        /\ UrlOrigin(previewUrl[1]) = <<"https://", "pv.app">>
        /\ UrlRest(previewUrl[1]) = UrlRest(prodUrl)

(***************************************************************************)
(* C33: mergeTaskValues resolves every field of the task by precedence:    *)
(* the current value when the key is present in the current input, else    *)
(* the history value when it is a primitive, else the field default; a key *)
(* that is not a field of the task never appears in the result             *)
(***************************************************************************)
FieldOfKey(task, key) ==
    task.fields[CHOOSE i \in DOMAIN task.fields : task.fields[i].key = key]
C33_MergePrecedence ==
    (selectedVisibleTask # NoValue /\ mergedValues # NoValue) =>
        LET task == selectedVisibleTask[1]
            merged == mergedValues[1]
        IN  /\ DOMAIN merged \subseteq FieldKeys(task)
            /\ \A key \in FieldKeys(task) :
                  Get(merged, key) =
                    IF key \in DOMAIN enteredValues THEN enteredValues[key]
                    ELSE IF key \in DOMAIN taskHistoryValues
                            /\ typeOf(taskHistoryValues[key]) \in
                                   {"string", "number", "boolean"}
                      THEN taskHistoryValues[key]
                    ELSE FieldOfKey(task, key).defaultValue
\* the three sources are used in one result, with an unknown history key and a
\* history value that is not a primitive
C33_Witness ==
    /\ selectedVisibleTask = Some(CompareProdPreviewTask)
    /\ taskHistoryValues =
          [k \in {"sitemapUrl", "runName", UnknownKey} |->
             IF k = "sitemapUrl" THEN JsObject ELSE Str(<<"old">>)]
    /\ enteredValues = [k \in {"sitemapUrl"} |-> Str(<<"new">>)]
    /\ mergedValues =
          Some([k \in {"sitemapUrl", "runName", "noCache"} |->
                  IF k = "sitemapUrl" THEN Str(<<"new">>)
                  ELSE IF k = "runName" THEN Str(<<"old">>)
                  ELSE Bool(FALSE)])

(***************************************************************************)
(* C34: buildCommandArgs returns the task id, then the defined positional  *)
(* values in ascending positional index, then for each flag field in       *)
(* manifest order `--flag value`; a boolean flag is emitted, without       *)
(* value, only when its value is true; a field with an undefined value is  *)
(* omitted; a value whose key is not a field never appears; an invalid or  *)
(* missing required value raises an error instead of producing a command   *)
(***************************************************************************)
\* what validateField makes of the value given for a field
Checked(field, values) == validateField(field, Get(values, field.key))
\* the number of arguments a flag field contributes
FlagWidth(field, values) ==
    IF field.flag = <<>> THEN 0
    ELSE IF field.type = "boolean"
      THEN (IF Checked(field, values).normalizedValue = Bool(TRUE) THEN 1 ELSE 0)
    ELSE IF Checked(field, values).normalizedValue = Undefined THEN 0
    ELSE 2
RECURSIVE WidthBefore(_, _, _)
WidthBefore(fields, i, values) ==
    IF i <= 1 THEN 0
    ELSE WidthBefore(fields, i - 1, values) + FlagWidth(fields[i - 1], values)
C34_CommandArgsLayout ==
    (selectedVisibleTask # NoValue /\ mergedValues # NoValue /\ taskArgs # NoValue) =>
        LET task == selectedVisibleTask[1]
            values == mergedValues[1]
            fields == task.fields
            used == { i \in DOMAIN fields :
                        fields[i].positional # NoValue \/ fields[i].flag # <<>> }
            given == { i \in DOMAIN fields :
                        /\ fields[i].positional # NoValue
                        /\ Checked(fields[i], values).normalizedValue # Undefined }
            rank(i) == Cardinality({ j \in given :
                          fields[j].positional[1] < fields[i].positional[1] }) + 1
            np == Cardinality(given)
            result == taskArgs[1]
            argv == result.value
        IN  IF \E i \in used : ~Checked(fields[i], values).valid
              THEN result.kind = "threw"
            ELSE /\ result.kind = "returned"
                 /\ Len(argv) = 1 + np + WidthBefore(fields, Len(fields) + 1, values)
                 /\ argv[1] = <<task.id>>
                 /\ \A i \in given :
                       argv[1 + rank(i)] =
                         TemplateString(Checked(fields[i], values).normalizedValue)
                 /\ \A i \in DOMAIN fields :
                       LET at == 1 + np + WidthBefore(fields, i, values)
                       IN  /\ FlagWidth(fields[i], values) >= 1 =>
                                 argv[at + 1] = <<"--">> \o fields[i].flag
                           /\ FlagWidth(fields[i], values) = 2 =>
                                 argv[at + 2] =
                                   TemplateString(Checked(fields[i], values).normalizedValue)
                 /\ \A n \in DOMAIN argv : argv[n] # <<"still-ignored">>
\* a command built for fields declared out of positional order, from values
\* that need normalising, with a value of an unknown key in the map
C34_Witness ==
    /\ selectedVisibleTask = Some(OutOfOrderTask)
    /\ mergedValues # NoValue
    /\ UnknownKey \in DOMAIN mergedValues[1]
    /\ taskArgs =
          Some(ReturnedValue(<< <<"out-of-order">>, <<"https://", "pv.app", "/">>,
                                <<"main">>, <<"--", "run-name">>, <<"2", "0">> >>))
\* a boolean flag that is true is emitted without value, after an integer flag
C34_BooleanFlagWitness ==
    /\ selectedVisibleTask = Some(SitemapOpenTask)
    /\ taskArgs =
          Some(ReturnedValue(<< <<"sitemap:open">>, <<"https://", "pv.app", "/">>,
                                <<"--", "max-urls">>, <<"1", "0">>, <<"--", "yes">> >>))
\* a required value is missing: an error instead of a command
C34_MissingRequiredWitness ==
    /\ selectedVisibleTask = Some(CompareBranchesTask)
    /\ mergedValues = Some([k \in {"url"} |-> Str(<<"https://", "pv.app">>)])
    /\ taskArgs = Some(ThrownError(<<"branchName", "is required.">>))

(***************************************************************************)
(* C35: loadHistory never fails: it returns an empty history for a missing *)
(* file and for a file with corrupt content; loadHistory after             *)
(* saveHistory(path, h) returns a history equal to h, for every history h  *)
(* of strings, booleans and finite numbers                                 *)
(***************************************************************************)
LastEvent == lnEvents[Len(lnEvents)]
Loads == lnEvents' = Append(lnEvents, ReadEvent)
LoadsAfterSave == lnEvents # <<>> /\ LastEvent = WriteEvent /\ Loads
AllFinite(h) ==
    \A t \in DOMAIN h : \A k \in DOMAIN h[t] : h[t][k][1] \notin {"NaN", "Infinity"}
C35_LoadNeverFailsAndRoundTrip ==
    [][ /\ lnEvents' = Append(lnEvents, ReadFailedEvent) => history' = EmptyMap
        /\ (Loads /\ historyFile \in {NoValue, Some(Corrupt)}) => history' = EmptyMap
        /\ (LoadsAfterSave /\ AllFinite(history)) => history' = history ]_vars
\* C35 as stated: the round trip for every history of primitive values
C35_RoundTripOfEveryHistory ==
    [][ LoadsAfterSave => history' = history ]_vars
\* a history with a string, a number and a boolean has been saved and loaded
C35_Witness ==
    /\ Len(lnEvents) >= 2
    /\ LastEvent = ReadEvent
    /\ lnEvents[Len(lnEvents) - 1] = WriteEvent
    /\ historyFile = saveHistory(history)
    /\ "compare:url" \in DOMAIN history
    /\ history["compare:url"] =
          [k \in HistoryKeys |-> IF k = "url1" THEN Num(0 - 5) ELSE Str(<<"sample">>)]
    /\ "sitemap:open" \in DOMAIN history
    /\ history["sitemap:open"] = [k \in {"runName"} |-> Bool(TRUE)]
\* a file that is missing or corrupt has been loaded
C35_CorruptFileWitness ==
    /\ lnEvents = <<ReadEvent>>
    /\ historyFile = Some(Corrupt)
    /\ history = EmptyMap

(***************************************************************************)
(* C32: in the task launcher, with --dry-run the resolved command is       *)
(* printed and never executed, and with --no-history the history file is   *)
(* neither read nor written during the run, for every task and every       *)
(* sequence of entered values                                              *)
(***************************************************************************)
EventKinds == { lnEvents[i][1] : i \in DOMAIN lnEvents }
CommandResolved == taskArgs # NoValue /\ taskArgs[1].kind = "returned"
C32_DryRunAndNoHistory ==
    /\ [](flags.dryRun =>
            /\ "spawn" \notin EventKinds
            /\ lnPc # "spawning"
            /\ (lnPc = "returned" /\ CommandResolved) =>
                  /\ lnExit = Some(0)
                  /\ \E i \in DOMAIN lnEvents :
                        lnEvents[i] =
                          PrintEvent(commandPreview(DenoCommand(taskArgs[1]))))
    /\ [](flags.noHistory =>
            EventKinds \cap {"read", "readFailed", "write", "writeFailed"} = {})
    /\ [][flags.noHistory => historyFile' = historyFile]_vars
\* a dry run has printed the command of a task with entered values, saved
\* the history and returned without running it
C32_DryRunWitness ==
    /\ flags.dryRun /\ ~flags.noHistory
    /\ lnPc = "returned"
    /\ lnExit = Some(0)
    /\ selectedVisibleTask # NoValue
    /\ selectedVisibleTask[1].id = "compare:prod-preview"
    /\ lnEvents =
          <<ReadEvent,
            PrintEvent(<<"deno", " ", "task", " ", "compare:prod-preview", " ",
                         "https://", "pv.app", "/", " ", "--", "no-cache", " ",
                         "--", "run-name", " ", "'", "my", " ", "run", "'">>),
            WriteEvent>>
\* a run with --no-history has executed the command and left the file alone
C32_NoHistoryWitness ==
    /\ flags.noHistory /\ ~flags.dryRun
    /\ lnPc = "returned"
    /\ "spawn" \in EventKinds
    /\ historyFile = saveHistory(SavedBefore)

====
